---- MODULE Spec2Model ----
(***************************************************************************)
(* Game Boy emulator core: the SM83 interpreter CPU::step of src/cpu.cpp   *)
(* with its interrupt check, stack helpers, timer and scanline counters,   *)
(* over the memory map of the MMU, and the scanline scheduler PPU::step of  *)
(* src/ppu.cpp.                                                            *)
(*                                                                         *)
(* The Memory class (memory.h / memory.cpp) is not part of the source tree *)
(* at hand; MemRead / MemWrite follow section 4.1 of the specification.    *)
(* The instructions explored by Step are the ones of Opcodes, which touch  *)
(* only A, F, PC, SP and memory; BC, DE and HL change through reset only.  *)
(***************************************************************************)
EXTENDS Integers, Sequences, FiniteSets, TLC

VARIABLES
  A,              \* AF.high
  F,              \* AF.low
  PC,             \* program counter
  SP,             \* stack pointer
  BC,             \* BC.pair
  DE,             \* DE.pair
  HL,             \* HL.pair
  IME,            \* interrupt master enable
  pendingIME,     \* EI executed, enable pending
  cycleCount,     \* CPU::cycleCount
  mem,            \* Memory: RAM / I-O bytes written so far (address -> byte)
  divCounter,     \* static int divCounter      (CPU::updateTimer)
  timaCounter,    \* static int timaCounter     (CPU::updateTimer)
  scanlineCycles, \* static int scanlineCycles  (CPU::updatePPUTiming)
  ppu,            \* the PPU: attached to the CPU or not, cycleCounter,
                  \* vblankFlag, static bool lcdWasDisabled (PPU::step)
  steps,          \* number of CPU::step calls made so far
  last,           \* what the last CPU::step call did (observation record)
  probe           \* operands and results of the stand-alone helper checks

vars == <<A, F, PC, SP, BC, DE, HL, IME, pendingIME, cycleCount, mem,
          divCounter, timaCounter, scanlineCycles, ppu, steps, last, probe>>

----------------------------------------------------------------------------
(* Bounds *)

MaxSteps == 2
MaxHostSteps == 1

----------------------------------------------------------------------------
(* Fixed-width arithmetic *)

RECURSIVE BitAndN(_, _, _)
BitAndN(a, b, n) ==
  IF n = 0 THEN 0
  ELSE (a % 2) * (b % 2) + 2 * BitAndN(a \div 2, b \div 2, n - 1)

BitAnd(a, b) == BitAndN(a, b, 16)
BitOr(a, b)  == a + b - BitAnd(a, b)
BitNot8(a)   == 255 - a
BitXor(a, b) == a + b - 2 * BitAnd(a, b)

U8(x)  == x % 256
U16(x) == x % 65536
Lo(w)  == w % 256
Hi(w)  == (w \div 256) % 256
Word(hi, lo) == hi * 256 + lo

----------------------------------------------------------------------------
(* Opcodes (src/cpu.h) *)

NOP       == \h00
LD_SP_NN  == \h31
INC_A     == \h3C
LD_A_N    == \h3E
HALT      == \h76
XOR_A     == \hAF
RET_NZ    == \hC0
JP_NZ_NN  == \hC2
JP_NN     == \hC3
RET_Z     == \hC8
RET       == \hC9
JP_Z_NN   == \hCA
CB_PREFIX == \hCB
CALL_Z    == \hCC
CALL_NN   == \hCD
RETI      == \hD9
LDH_a8_A  == \hE0
LD_NN_A   == \hEA
POP_AF    == \hF1
DI        == \hF3
PUSH_AF   == \hF5
EI        == \hFB
RST_38    == \hFF
SWAP_A    == \h37
BIT_0_HL  == \h46

FLAG_ZERO       == \h80
FLAG_SUBTRACT   == \h40
FLAG_HALF_CARRY == \h20
FLAG_CARRY      == \h10

----------------------------------------------------------------------------
(* Cycle tables.  CYCLE_TABLE and CB_CYCLE_TABLE are the static tables of  *)
(* src/cpu.h.  InlineUntaken / InlineTaken list, per base opcode, the      *)
(* value the opcode's case of the switch in CPU::step leaves in `cycles`   *)
(* (condition false / condition true); an opcode whose case assigns        *)
(* nothing keeps CYCLE_TABLE[opcode], an opcode without a case takes the   *)
(* default branch (4), and the entry of 0xCB is unused (see CBCycles).     *)

CYCLE_TABLE ==
  << 4, 12,  8,  8,  4,  4,  8,  4, 20,  8,  8,  8,  4,  4,  8,  4,
     4, 12,  8,  8,  4,  4,  8,  4, 12,  8,  8,  8,  4,  4,  8,  4,
     8, 12,  8,  8,  4,  4,  8,  4, 12,  8,  8,  8,  4,  4,  8,  4,
     8, 12,  8,  8,  4,  4,  8,  4, 12,  8,  8,  8,  4,  4,  8,  4,
     4,  4,  4,  4,  4,  4,  8,  4,  4,  4,  4,  4,  4,  4,  8,  4,
     4,  4,  4,  4,  4,  4,  8,  4,  4,  4,  4,  4,  4,  4,  8,  4,
     4,  4,  4,  4,  4,  4,  8,  4,  4,  4,  4,  4,  4,  4,  8,  4,
     4,  4,  4,  4,  4,  4,  8,  4,  4,  4,  4,  4,  4,  4,  8,  4,
     4,  4,  4,  4,  4,  4,  4,  4,  4,  4,  4,  4,  4,  4,  4,  4,
     4,  4,  4,  4,  4,  4,  4,  4,  4,  4,  4,  4,  4,  4,  4,  4,
     4,  4,  4,  4,  4,  4,  4,  4,  4,  4,  4,  4,  4,  4,  4,  4,
     4,  4,  4,  4,  4,  4,  4,  4,  4,  4,  4,  4,  4,  4,  4,  4,
     8, 12, 12, 12, 12, 16,  8, 16,  8, 16, 16, 16, 12, 16,  8, 16,
     8, 12, 12, 12, 12, 16,  8, 16,  8, 16, 16, 16, 12, 16,  8, 16,
    12, 12,  8, 12,  8, 16,  8, 16, 16,  4, 16,  4,  8,  8,  8,  8,
    12, 12,  8, 12,  8, 16,  8, 16, 12,  4, 16,  4,  8,  8,  8,  8>>

CB_CYCLE_TABLE ==
  << 8,  8,  8,  8,  8,  8, 16,  8,  8,  8,  8,  8,  8,  8, 16,  8,
     8,  8,  8,  8,  8,  8, 16,  8,  8,  8,  8,  8,  8,  8, 16,  8,
     8,  8,  8,  8,  8,  8, 16,  8,  8,  8,  8,  8,  8,  8, 16,  8,
     8,  8,  8,  8,  8,  8, 16,  8,  8,  8,  8,  8,  8,  8, 16,  8,
     8,  8,  8,  8,  8,  8, 12,  8,  8,  8,  8,  8,  8,  8, 12,  8,
     8,  8,  8,  8,  8,  8, 12,  8,  8,  8,  8,  8,  8,  8, 12,  8,
     8,  8,  8,  8,  8,  8, 12,  8,  8,  8,  8,  8,  8,  8, 12,  8,
     8,  8,  8,  8,  8,  8, 12,  8,  8,  8,  8,  8,  8,  8, 12,  8,
     8,  8,  8,  8,  8,  8, 16,  8,  8,  8,  8,  8,  8,  8, 16,  8,
     8,  8,  8,  8,  8,  8, 16,  8,  8,  8,  8,  8,  8,  8, 16,  8,
     8,  8,  8,  8,  8,  8, 16,  8,  8,  8,  8,  8,  8,  8, 16,  8,
     8,  8,  8,  8,  8,  8, 16,  8,  8,  8,  8,  8,  8,  8, 16,  8,
     8,  8,  8,  8,  8,  8, 16,  8,  8,  8,  8,  8,  8,  8, 16,  8,
     8,  8,  8,  8,  8,  8, 16,  8,  8,  8,  8,  8,  8,  8, 16,  8,
     8,  8,  8,  8,  8,  8, 16,  8,  8,  8,  8,  8,  8,  8, 16,  8,
     8,  8,  8,  8,  8,  8, 16,  8,  8,  8,  8,  8,  8,  8, 16,  8>>

InlineUntaken ==
  << 4, 12,  8,  8,  4,  4,  8,  4, 20,  8,  8,  8,  4,  4,  8,  4,
     4, 12,  8,  8,  4,  4,  8,  4, 12,  8,  8,  8,  4,  4,  8,  4,
     8, 12,  8,  8,  4,  4,  8,  4,  8,  8,  8,  8,  4,  4,  8,  4,
     8, 12,  8,  8, 12, 12, 12,  4,  8,  8,  8,  8,  4,  4,  8,  4,
     4,  4,  4,  4,  4,  4,  8,  4,  4,  4,  4,  4,  4,  4,  8,  4,
     4,  4,  4,  4,  4,  4,  8,  4,  4,  4,  4,  4,  4,  4,  8,  4,
     4,  4,  4,  4,  4,  4,  8,  4,  4,  4,  4,  4,  4,  4,  8,  4,
     8,  8,  8,  8,  8,  8,  4,  8,  4,  4,  4,  4,  4,  4,  8,  4,
     4,  4,  4,  4,  4,  4,  8,  4,  4,  4,  4,  4,  4,  4,  8,  4,
     4,  4,  4,  4,  4,  4,  8,  4,  4,  4,  4,  4,  4,  4,  8,  4,
     4,  4,  4,  4,  4,  4,  8,  4,  4,  4,  4,  4,  4,  4,  8,  4,
     4,  4,  4,  4,  4,  4,  8,  4,  4,  4,  4,  4,  4,  4,  8,  4,
     8, 12, 12, 16, 12, 16,  8, 16,  8, 16, 12,  0, 12, 24,  8, 16,
     8, 12, 12,  4, 12, 16,  8, 16,  8, 16, 12,  4, 12,  4,  8, 16,
    12, 12,  8,  4,  4, 16,  8, 16, 16,  4, 16,  4,  4,  4,  8, 16,
    12, 12,  8,  4,  4, 16,  8, 16, 12,  8, 16,  4,  4,  4,  8, 16>>

InlineTaken ==
  << 4, 12,  8,  8,  4,  4,  8,  4, 20,  8,  8,  8,  4,  4,  8,  4,
     4, 12,  8,  8,  4,  4,  8,  4, 12,  8,  8,  8,  4,  4,  8,  4,
    12, 12,  8,  8,  4,  4,  8,  4, 12,  8,  8,  8,  4,  4,  8,  4,
    12, 12,  8,  8, 12, 12, 12,  4, 12,  8,  8,  8,  4,  4,  8,  4,
     4,  4,  4,  4,  4,  4,  8,  4,  4,  4,  4,  4,  4,  4,  8,  4,
     4,  4,  4,  4,  4,  4,  8,  4,  4,  4,  4,  4,  4,  4,  8,  4,
     4,  4,  4,  4,  4,  4,  8,  4,  4,  4,  4,  4,  4,  4,  8,  4,
     8,  8,  8,  8,  8,  8,  4,  8,  4,  4,  4,  4,  4,  4,  8,  4,
     4,  4,  4,  4,  4,  4,  8,  4,  4,  4,  4,  4,  4,  4,  8,  4,
     4,  4,  4,  4,  4,  4,  8,  4,  4,  4,  4,  4,  4,  4,  8,  4,
     4,  4,  4,  4,  4,  4,  8,  4,  4,  4,  4,  4,  4,  4,  8,  4,
     4,  4,  4,  4,  4,  4,  8,  4,  4,  4,  4,  4,  4,  4,  8,  4,
    20, 12, 16, 16, 24, 16,  8, 16, 20, 16, 16,  0, 24, 24,  8, 16,
    20, 12, 16,  4, 24, 16,  8, 16, 20, 16, 16,  4, 24,  4,  8, 16,
    12, 12,  8,  4,  4, 16,  8, 16, 16,  4, 16,  4,  4,  4,  8, 16,
    12, 12,  8,  4,  4, 16,  8, 16, 12,  8, 16,  4,  4,  4,  8, 16>>


\* Per base opcode, the number of bytes its case of the switch moves PC
\* forward (PC++, readByte(PC++), PC += 2) on the path where no jump is
\* taken; the fetch has moved PC past the opcode byte before.  The PC++ of
\* HALT is conditional and is not counted here (see ExecHalt).
InlinePCSteps ==
  << 0, 2, 0, 0, 1, 1, 1, 0, 2, 0, 0, 1, 0, 0, 1, 1,
     1, 2, 0, 0, 1, 1, 1, 0, 1, 0, 0, 0, 1, 1, 1, 0,
     1, 2, 0, 0, 1, 1, 1, 0, 1, 0, 1, 0, 1, 1, 1, 1,
     1, 2, 0, 0, 0, 0, 1, 1, 1, 0, 0, 0, 0, 1, 1, 0,
     0, 0, 0, 0, 0, 0, 0, 0, 0, 0, 0, 0, 0, 0, 0, 0,
     0, 0, 0, 0, 0, 0, 0, 0, 0, 0, 0, 0, 0, 0, 0, 0,
     0, 0, 0, 0, 0, 0, 0, 0, 0, 0, 0, 0, 0, 0, 0, 0,
     0, 0, 0, 0, 0, 0, 0, 0, 0, 0, 0, 0, 0, 0, 0, 0,
     1, 0, 0, 0, 0, 0, 0, 0, 1, 1, 1, 1, 1, 1, 1, 1,
     0, 1, 0, 0, 0, 0, 0, 0, 0, 0, 0, 0, 0, 0, 0, 0,
     0, 0, 0, 0, 0, 0, 0, 0, 0, 1, 0, 0, 0, 1, 1, 0,
     1, 1, 1, 1, 0, 0, 1, 1, 0, 0, 0, 0, 0, 0, 0, 0,
     0, 0, 2, 2, 2, 0, 1, 0, 0, 0, 2, 1, 2, 2, 1, 0,
     0, 0, 2, 0, 2, 0, 1, 0, 0, 0, 2, 0, 2, 0, 1, 0,
     1, 0, 0, 0, 0, 0, 1, 0, 1, 0, 2, 0, 0, 0, 1, 0,
     1, 0, 0, 0, 0, 0, 1, 0, 1, 0, 2, 0, 0, 0, 1, 0>>

\* PC after a step that takes no jump, relative to PC before the fetch.
PCAdvance(op) == 1 + InlinePCSteps[op + 1]

CycleTable(op)   == CYCLE_TABLE[op + 1]
CBCycleTable(cb) == CB_CYCLE_TABLE[cb + 1]

\* CBCycles with the (HL) form charged 6 instead of 16 (faulty variant).
CBCycles_Odd(cb) == IF cb = BIT_0_HL THEN 6 ELSE 8

\* `cycles` after the CB switch: the value taken from CB_CYCLE_TABLE is
\* overwritten by the if/else that follows the inner switch.
CBCycles(cb) == IF cb = BIT_0_HL THEN 16 ELSE 8

\* Value of `cycles` when the outer switch of CPU::step is left.
InstrCycles(op, cb, taken) ==
  IF op = CB_PREFIX THEN CBCycles(cb)
  ELSE IF taken THEN InlineTaken[op + 1]
  ELSE InlineUntaken[op + 1]

\* Cycles added to the return value when checkInterrupts() returns true.
InterruptOverhead == 20

\* Opcodes whose case tests a flag.
Conditional ==
  {\h20, \h28, \h30, \h38, \hC0, \hC2, \hC4, \hC8, \hCA, \hCC,
   \hD0, \hD2, \hD4, \hD8, \hDA, \hDC}

----------------------------------------------------------------------------
(* Memory (MMU).  Addresses below 0x8000 are cartridge ROM: their content  *)
(* is an input of the run and writes to them reach the bank registers, not *)
(* the bytes.  The cartridge is ROM-only, so A000-BFFF reads 0xFF.  Bytes  *)
(* never written read 0.                                                   *)

ADDR_DIV  == \hFF04
ADDR_TIMA == \hFF05
ADDR_TMA  == \hFF06
ADDR_TAC  == \hFF07
ADDR_IF   == \hFF0F
ADDR_LCDC == \hFF40
ADDR_STAT == \hFF41
ADDR_LY   == \hFF44
ADDR_LYC  == \hFF45
ADDR_IE   == \hFFFF

IsRom(a)    == a < \h8000
IsExtRam(a) == a >= \hA000 /\ a <= \hBFFF
IsEcho(a)   == a >= \hE000 /\ a <= \hFDFF

\* E000-FDFF mirrors C000-DDFF.
Mirror(a) == IF IsEcho(a) THEN a - \h2000 ELSE a

\* An address that stores what is written to it and reads it back as is.
PlainRam(a) ==
  /\ ~IsRom(a)
  /\ ~IsExtRam(a)
  /\ a \notin {ADDR_DIV, ADDR_LY, ADDR_IF, \hFF00, \hFF46}

MemRead(m, a) ==
  LET p   == Mirror(a)
      raw == IF p \in DOMAIN m THEN m[p] ELSE 0
  IN  IF IsExtRam(a) THEN \hFF
      ELSE IF a = ADDR_IF THEN BitOr(raw, \hE0)
      ELSE raw

\* MemWrite that stores an echo address in place instead of in the work
\* RAM it mirrors (faulty variant).
MemWrite_NoEcho(m, a, v) ==
  IF IsRom(a) \/ IsExtRam(a) THEN m
  ELSE LET w == IF a \in {ADDR_DIV, ADDR_LY} THEN 0 ELSE v
       IN  [x \in (DOMAIN m) \cup {a} |-> IF x = a THEN w ELSE m[x]]

MemWrite(m, a, v) ==
  IF IsRom(a) \/ IsExtRam(a) THEN m
  ELSE LET p == Mirror(a)
           w == IF p \in {ADDR_DIV, ADDR_LY} THEN 0 ELSE v
       IN  [x \in (DOMAIN m) \cup {p} |-> IF x = p THEN w ELSE m[x]]

\* write_word with the high byte stored first in memory (faulty variant).
MemWriteWord_BigEndian(m, a, x) ==
  MemWrite(MemWrite(m, a, Hi(x)), U16(a + 1), Lo(x))

\* writeWord(a, x): the little-endian pair, low byte at a, high byte at a+1.
MemWriteWord(m, a, x) ==
  MemWrite(MemWrite(m, a, Lo(x)), U16(a + 1), Hi(x))

\* readWord(a).
MemReadWord(m, a) == Word(MemRead(m, U16(a + 1)), MemRead(m, a))

----------------------------------------------------------------------------
(* MBC1 registers (section 3 and 4.1 of the specification): romBank is the *)
(* 5-bit ROM bank register, upper the 2-bit register written at 4000-5FFF, *)
(* mode the banking mode bit, ramEnabled the RAM gate; banks is the number *)
(* of 16 KiB banks of the cartridge.                                       *)

\* The registers after loadRom.
MbcReset(banks) ==
  [romBank |-> 1, upper |-> 0, mode |-> 0, ramEnabled |-> FALSE,
   banks |-> banks]

\* MbcWrite that stores the low 5 bits as written (faulty variant).
MbcWrite_NoPromotion(c, a, v) ==
  IF a < \h2000 THEN [c EXCEPT !.ramEnabled = (v % 16 = \h0A)]
  ELSE IF a < \h4000 THEN [c EXCEPT !.romBank = v % 32]
  ELSE IF a < \h6000 THEN [c EXCEPT !.upper = v % 4]
  ELSE IF a < \h8000 THEN [c EXCEPT !.mode = v % 2]
  ELSE c

\* write(a, v) as the bank controller sees it.
MbcWrite(c, a, v) ==
  IF a < \h2000 THEN [c EXCEPT !.ramEnabled = (v % 16 = \h0A)]
  ELSE IF a < \h4000
    THEN [c EXCEPT !.romBank = IF v % 32 = 0 THEN 1 ELSE v % 32]
  ELSE IF a < \h6000 THEN [c EXCEPT !.upper = v % 4]
  ELSE IF a < \h8000 THEN [c EXCEPT !.mode = v % 2]
  ELSE c

\* The ROM bank mapped at 4000-7FFF: in mode 0 the upper two bits sit above
\* the lower five, in mode 1 they select the RAM bank instead; a selection
\* beyond the cartridge saturates at its last bank.
EffectiveRomBank(c) ==
  LET sel == IF c.mode = 0 THEN c.upper * 32 + c.romBank ELSE c.romBank
  IN  IF sel > c.banks - 1 THEN c.banks - 1 ELSE sel

----------------------------------------------------------------------------
(* Flags and register pair AF *)

GetFlag(f, flag) == BitAnd(f, flag) # 0

SetFlag(f, flag, value) ==
  BitAnd(IF value THEN BitOr(f, flag) ELSE BitAnd(f, BitNot8(flag)), \hF0)

GetAF(a, f) == Word(a, f)

\* SetAF without the mask on the low nibble of F (faulty variant).
SetAF_NoMask(value) == [A |-> Hi(value), F |-> Lo(value)]

\* setAF: AF.pair = value; AF.low &= 0xF0.
SetAF(value) == [A |-> Hi(value), F |-> BitAnd(Lo(value), \hF0)]

----------------------------------------------------------------------------
(* Stack helpers CPU::push and CPU::pop *)

\* SP--; write(SP, low byte); SP--; write(SP, high byte).
Push(m, sp, value) ==
  LET sp1 == U16(sp + 65535)
      m1  == MemWrite(m, sp1, Lo(value))
      sp2 == U16(sp1 + 65535)
      m2  == MemWrite(m1, sp2, Hi(value))
  IN  [mem |-> m2, SP |-> sp2]

\* low = read(SP++); high = read(SP++); return (high << 8) | low.
\* lo and hi are the two bytes the reads return.
Pop(sp, lo, hi) == [value |-> BitOr(hi * 256, lo), SP |-> U16(sp + 2)]

----------------------------------------------------------------------------
(* Inputs of a run: what the cartridge ROM holds where the CPU reads it.   *)

\* Opcode of the undefined group (no case in the switch: default branch).
UNDEFINED_D3 == \hD3
\* Opcode of the undefined group with a case of its own (case 0xFC).
UNDEFINED_FC == \hFC
\* The opcode bytes the SM83 does not define.
UndefinedOpcodes ==
  {\hD3, \hDB, \hDD, \hE3, \hE4, \hEB, \hEC, \hED, \hF4, \hFC, \hFD}

\* Base opcodes the explored programs are made of.
Opcodes ==
  {NOP, LD_SP_NN, INC_A, LD_A_N, HALT, XOR_A, RET_NZ, JP_NZ_NN, JP_NN,
   RET_Z, RET, JP_Z_NN, CB_PREFIX, CALL_Z, CALL_NN, RETI, LDH_a8_A,
   LD_NN_A, POP_AF, DI, PUSH_AF, EI, RST_38, UNDEFINED_D3, UNDEFINED_FC}

\* CB opcodes the explored programs use: SWAP A and RLC B (the latter has
\* no case in the inner switch).
CBOpcodes == {SWAP_A, \h00}

\* 8-bit immediates, 16-bit immediates and data bytes held in ROM.
RomImm8  == {\h0F, \hFF}
RomImm16 == {\h0150, \hFF0F, \hFF11, \hFFFF}
RomData  == {\h01, \hFF}

\* Number of immediate bytes the case of an opcode reads.
ImmLen(op) ==
  IF op \in {LD_SP_NN, JP_NZ_NN, JP_NN, JP_Z_NN, CALL_Z, CALL_NN, LD_NN_A}
    THEN 2
  ELSE IF op \in {LD_A_N, CB_PREFIX, LDH_a8_A} THEN 1
  ELSE 0

\* Opcodes whose case may call pop().
Pops(op) == op \in {RET_NZ, RET_Z, RET, RETI, POP_AF}

\* Bytes readByte(a) can return.
ReadSet(m, a) == IF IsRom(a) THEN RomData ELSE {MemRead(m, a)}

\* Opcode bytes the fetch at pc can return.
FetchSet(m, pc) == IF IsRom(pc) THEN Opcodes ELSE {MemRead(m, pc)} \cap Opcodes

\* Immediate operands <<b1, b2>> of opcode op, stored at pc and pc+1.
ImmSet(m, op, pc) ==
  LET n  == ImmLen(op)
      p1 == U16(pc + 1)
  IN  IF n = 0 THEN {<<0, 0>>}
      ELSE IF n = 1 THEN
        IF IsRom(pc)
          THEN {<<b, 0>> : b \in (IF op = CB_PREFIX THEN CBOpcodes ELSE RomImm8)}
          ELSE {<<b, 0>> : b \in ({MemRead(m, pc)} \cap
                   (IF op = CB_PREFIX THEN CBOpcodes ELSE 0..255))}
      ELSE IF IsRom(pc) /\ IsRom(p1)
          THEN {<<Lo(w), Hi(w)>> : w \in RomImm16}
          ELSE {<<b1, b2>> : b1 \in ReadSet(m, pc), b2 \in ReadSet(m, p1)}

\* Bytes <<lo, hi>> the two reads of pop() return at sp and sp+1.
PopSet(m, op, sp) ==
  IF Pops(op)
    THEN {<<lo, hi>> : lo \in ReadSet(m, sp), hi \in ReadSet(m, U16(sp + 1))}
    ELSE {<<0, 0>>}

----------------------------------------------------------------------------
(* CPU::step, part 2: the switch over the opcode.  s is the machine state  *)
(* with PC already moved past the opcode byte; imm = <<b1, b2>> are the    *)
(* bytes at PC and PC+1, pp = <<lo, hi>> the bytes a pop() would read.     *)
(* The result holds the new state, whether a condition was taken and       *)
(* whether HALT took its `advance PC like NOP' branch.                     *)

\* INC A: Z, N, H are set through setFlag; C is not touched.
IncA(s) ==
  LET result == U8(s.A + 1)
      f1 == SetFlag(s.F, FLAG_ZERO, result = 0)
      f2 == SetFlag(f1, FLAG_SUBTRACT, FALSE)
      f3 == SetFlag(f2, FLAG_HALF_CARRY, BitAnd(s.A, \h0F) = \h0F)
  IN  [s EXCEPT !.A = result, !.F = f3]

\* XOR A.
XorA(s) ==
  LET result == 0
      f1 == SetFlag(s.F, FLAG_ZERO, result = 0)
      f2 == SetFlag(f1, FLAG_SUBTRACT, FALSE)
      f3 == SetFlag(f2, FLAG_HALF_CARRY, FALSE)
      f4 == SetFlag(f3, FLAG_CARRY, FALSE)
  IN  [s EXCEPT !.A = result, !.F = f4]

\* CB-prefixed instruction: SWAP A has a case, other opcodes fall to the
\* empty default of the inner switch.
ExecCB(s, cb) ==
  LET s1 == [s EXCEPT !.PC = U16(s.PC + 1)]
  IN  IF cb = SWAP_A
        THEN LET a  == U8(BitOr(BitAnd(s.A, \h0F) * 16, BitAnd(s.A, \hF0) \div 16))
                 f1 == SetFlag(s.F, FLAG_ZERO, a = 0)
                 f2 == SetFlag(f1, FLAG_SUBTRACT, FALSE)
                 f3 == SetFlag(f2, FLAG_HALF_CARRY, FALSE)
                 f4 == SetFlag(f3, FLAG_CARRY, FALSE)
             IN  [s1 EXCEPT !.A = a, !.F = f4]
        ELSE s1

\* HALT: with IME off and nothing pending PC is advanced once more;
\* otherwise nothing is done (no halted state is kept).
ExecHalt(s) ==
  LET ie == MemRead(s.mem, ADDR_IE)
      if == MemRead(s.mem, ADDR_IF)
  IN  IF ~s.IME /\ BitAnd(ie, if) = 0
        THEN [st |-> [s EXCEPT !.PC = U16(s.PC + 1)], skip |-> TRUE]
        ELSE [st |-> s, skip |-> FALSE]

Execute(s, op, imm, pp) ==
  LET nn   == Word(imm[2], imm[1])
      z    == GetFlag(s.F, FLAG_ZERO)
      pv   == Pop(s.SP, pp[1], pp[2])
      past == [s EXCEPT !.PC = U16(s.PC + ImmLen(op))]
      Res(st, t) == [st |-> st, taken |-> t, haltSkip |-> FALSE]
      Jump(cond) == IF cond THEN Res([past EXCEPT !.PC = nn], TRUE)
                    ELSE Res(past, FALSE)
      Call(cond) ==
        IF cond
          THEN LET r == Push(s.mem, s.SP, past.PC)
               IN  Res([past EXCEPT !.mem = r.mem, !.SP = r.SP, !.PC = nn], TRUE)
          ELSE Res(past, FALSE)
      Ret(cond) == IF cond THEN Res([s EXCEPT !.PC = pv.value, !.SP = pv.SP], TRUE)
                   ELSE Res(s, FALSE)
  IN  CASE op = NOP       -> Res(s, FALSE)
        [] op = LD_SP_NN  -> Res([past EXCEPT !.SP = nn], FALSE)
        [] op = INC_A     -> Res(IncA(s), FALSE)
        [] op = LD_A_N    -> Res([past EXCEPT !.A = imm[1]], FALSE)
        [] op = HALT      -> LET h == ExecHalt(s)
                             IN  [st |-> h.st, taken |-> FALSE, haltSkip |-> h.skip]
        [] op = XOR_A     -> Res(XorA(s), FALSE)
        [] op = RET_NZ    -> Ret(~z)
        [] op = JP_NZ_NN  -> Jump(~z)
        [] op = JP_NN     -> Res([past EXCEPT !.PC = nn], FALSE)
        [] op = RET_Z     -> Ret(z)
        [] op = RET       -> Res([s EXCEPT !.PC = pv.value, !.SP = pv.SP], FALSE)
        [] op = JP_Z_NN   -> Jump(z)
        [] op = CB_PREFIX -> Res(ExecCB(s, imm[1]), FALSE)
        [] op = CALL_Z    -> Call(z)
        [] op = CALL_NN   -> LET r == Push(s.mem, s.SP, past.PC)
                             IN  Res([past EXCEPT !.mem = r.mem, !.SP = r.SP,
                                                  !.PC = nn], FALSE)
        [] op = RETI      -> Res([s EXCEPT !.PC = pv.value, !.SP = pv.SP,
                                           !.IME = TRUE, !.pendingIME = FALSE],
                                 FALSE)
        [] op = LDH_a8_A  -> Res(past, FALSE)
        [] op = LD_NN_A   -> Res([past EXCEPT !.mem = MemWrite(s.mem, nn, s.A)],
                                 FALSE)
        [] op = POP_AF    -> LET af == SetAF(pv.value)
                             IN  Res([s EXCEPT !.A = af.A, !.F = af.F,
                                               !.SP = pv.SP], FALSE)
        [] op = DI        -> Res([s EXCEPT !.IME = FALSE, !.pendingIME = FALSE],
                                 FALSE)
        [] op = PUSH_AF   -> LET r == Push(s.mem, s.SP, GetAF(s.A, s.F))
                             IN  Res([s EXCEPT !.mem = r.mem, !.SP = r.SP], FALSE)
        [] op = EI        -> Res([s EXCEPT !.pendingIME = TRUE], FALSE)
        [] op = RST_38    -> LET r == Push(s.mem, s.SP, s.PC)
                             IN  Res([s EXCEPT !.mem = r.mem, !.SP = r.SP,
                                               !.PC = \h38], FALSE)
        [] OTHER          -> Res(s, FALSE)

----------------------------------------------------------------------------
(* CPU::updateTimer *)

TimerFrequency(tac) ==
  CASE BitAnd(tac, 3) = 0 -> 1024
    [] BitAnd(tac, 3) = 1 -> 16
    [] BitAnd(tac, 3) = 2 -> 64
    [] OTHER              -> 256

\* UpdateTimer with TIMA wrapping to 0 on overflow instead of reloading TMA
\* (faulty variant).
UpdateTimer_WrapToZero(s, cycles) ==
  LET dc0 == s.divCounter + cycles
      s1  == IF dc0 >= 256
               THEN [s EXCEPT !.divCounter = dc0 - 256,
                              !.mem = MemWrite(s.mem, ADDR_DIV,
                                         U8(MemRead(s.mem, ADDR_DIV) + 1))]
               ELSE [s EXCEPT !.divCounter = dc0]
      tac == MemRead(s1.mem, ADDR_TAC)
  IN  IF BitAnd(tac, 4) = 0 THEN s1
      ELSE LET frequency == TimerFrequency(tac)
               tc0  == s1.timaCounter + cycles
               tima == MemRead(s1.mem, ADDR_TIMA)
               m1   == MemWrite(s1.mem, ADDR_TIMA, U8(tima + 1))
           IN  IF tc0 < frequency THEN [s1 EXCEPT !.timaCounter = tc0]
               ELSE [s1 EXCEPT
                       !.timaCounter = tc0 - frequency,
                       !.mem = IF tima = \hFF
                                 THEN MemWrite(m1, ADDR_IF,
                                        BitOr(MemRead(m1, ADDR_IF), 4))
                                 ELSE m1]

UpdateTimer(s, cycles) ==
  LET dc0 == s.divCounter + cycles
      s1  == IF dc0 >= 256
               THEN [s EXCEPT !.divCounter = dc0 - 256,
                              !.mem = MemWrite(s.mem, ADDR_DIV,
                                         U8(MemRead(s.mem, ADDR_DIV) + 1))]
               ELSE [s EXCEPT !.divCounter = dc0]
      tac == MemRead(s1.mem, ADDR_TAC)
  IN  IF BitAnd(tac, 4) = 0 THEN s1
      ELSE LET frequency == TimerFrequency(tac)
               tc0  == s1.timaCounter + cycles
               tima == MemRead(s1.mem, ADDR_TIMA)
           IN  IF tc0 < frequency THEN [s1 EXCEPT !.timaCounter = tc0]
               ELSE IF tima = \hFF
                 THEN LET m1 == MemWrite(s1.mem, ADDR_TIMA,
                                         MemRead(s1.mem, ADDR_TMA))
                          m2 == MemWrite(m1, ADDR_IF,
                                         BitOr(MemRead(m1, ADDR_IF), 4))
                      IN  [s1 EXCEPT !.timaCounter = tc0 - frequency,
                                     !.mem = m2]
                 ELSE [s1 EXCEPT !.timaCounter = tc0 - frequency,
                                 !.mem = MemWrite(s1.mem, ADDR_TIMA,
                                                  U8(tima + 1))]

----------------------------------------------------------------------------
(* CPU::checkInterrupts and CPU::serviceInterrupt *)

Pow2(n) == 2 ^ n

ServiceInterrupt(s, vector, bit) ==
  LET if0 == MemRead(s.mem, ADDR_IF)
      if1 == BitAnd(if0, BitNot8(Pow2(bit)))
      m1  == MemWrite(s.mem, ADDR_IF, if1)
      r   == Push(m1, s.SP, s.PC)
  IN  [s EXCEPT !.mem = r.mem, !.SP = r.SP, !.PC = vector, !.IME = FALSE]

\* FiredIndex with the chain tested from bit 4 down (faulty variant).
FiredIndex_Highest(fired) ==
  IF BitAnd(fired, \h10) # 0 THEN 4
  ELSE IF BitAnd(fired, \h08) # 0 THEN 3
  ELSE IF BitAnd(fired, \h04) # 0 THEN 2
  ELSE IF BitAnd(fired, \h02) # 0 THEN 1
  ELSE IF BitAnd(fired, \h01) # 0 THEN 0
  ELSE -1

\* The if / else-if chain over `fired': index of the interrupt serviced,
\* -1 when none of the five tests matches.
FiredIndex(fired) ==
  IF BitAnd(fired, \h01) # 0 THEN 0
  ELSE IF BitAnd(fired, \h02) # 0 THEN 1
  ELSE IF BitAnd(fired, \h04) # 0 THEN 2
  ELSE IF BitAnd(fired, \h08) # 0 THEN 3
  ELSE IF BitAnd(fired, \h10) # 0 THEN 4
  ELSE -1

\* CheckInterrupts with the master enable left out of the test (faulty
\* variant).
CheckInterrupts_IgnoreIME(s) ==
  LET s1    == IF s.pendingIME
                 THEN [s EXCEPT !.IME = TRUE, !.pendingIME = FALSE]
                 ELSE s
      fired == BitAnd(MemRead(s1.mem, ADDR_IE), MemRead(s1.mem, ADDR_IF))
      idx   == FiredIndex(fired)
  IN  IF fired # 0
        THEN [st  |-> IF idx >= 0
                        THEN ServiceInterrupt(s1, \h40 + 8 * idx, idx)
                        ELSE s1,
              ret |-> TRUE, index |-> idx]
        ELSE [st |-> s1, ret |-> FALSE, index |-> -1]

\* Result: the new state, the return value and the index serviced.
CheckInterrupts(s) ==
  LET s1    == IF s.pendingIME
                 THEN [s EXCEPT !.IME = TRUE, !.pendingIME = FALSE]
                 ELSE s
      fired == BitAnd(MemRead(s1.mem, ADDR_IE), MemRead(s1.mem, ADDR_IF))
      idx   == FiredIndex(fired)
  IN  IF s1.IME /\ fired # 0
        THEN [st  |-> IF idx >= 0
                        THEN ServiceInterrupt(s1, \h40 + 8 * idx, idx)
                        ELSE s1,
              ret |-> TRUE, index |-> idx]
        ELSE [st |-> s1, ret |-> FALSE, index |-> -1]

----------------------------------------------------------------------------
(* CPU::updatePPUTiming *)

UpdatePPUTiming(s, cycles) ==
  LET sc0 == s.scanlineCycles + cycles
  IN  IF sc0 < 456 THEN [s EXCEPT !.scanlineCycles = sc0]
      ELSE LET currentLY == MemRead(s.mem, ADDR_LY)
               inc   == U8(currentLY + 1)
               newLY == IF inc > 153 THEN 0 ELSE inc
               m1    == MemWrite(s.mem, ADDR_LY, newLY)
               stat0 == BitAnd(MemRead(m1, ADDR_STAT), \hFC)
               stat  == IF newLY < 144 THEN stat0 ELSE BitOr(stat0, 1)
               m2    == IF newLY = 144
                          THEN MemWrite(m1, ADDR_IF,
                                        BitOr(MemRead(m1, ADDR_IF), 1))
                          ELSE m1
               m3    == MemWrite(m2, ADDR_STAT, stat)
           IN  [s EXCEPT !.scanlineCycles = sc0 - 456, !.mem = m3]

----------------------------------------------------------------------------
(* PPU::step (src/ppu.cpp): the scanline scheduler.  The PPU keeps LY and  *)
(* STAT in memory and reads and writes them through Memory::read / write;  *)
(* its own fields are cycleCounter and vblankFlag, and the function-static *)
(* lcdWasDisabled.                                                         *)

CYCLES_PER_LINE == 456
CYCLES_OAM      == 80
CYCLES_TRANSFER == 172
VISIBLE_LINES   == 144
TOTAL_LINES     == 154

\* No PPU attached to the CPU (ppu == nullptr), PPU fields as constructed.
NoPPU ==
  [attached |-> FALSE, cycleCounter |-> 0, vblankFlag |-> FALSE,
   lcdWasDisabled |-> FALSE]

\* LineMode with mode 3 entered one machine cycle late (faulty variant).
LineMode_Late(cc) ==
  IF cc < CYCLES_OAM + 4 THEN 2
  ELSE IF cc < CYCLES_OAM + CYCLES_TRANSFER THEN 3
  ELSE 0

\* Mode of a visible line at position cycleCounter: the if / else-if chain
\* after the line loop.
LineMode(cc) ==
  IF cc < CYCLES_OAM THEN 2
  ELSE IF cc < CYCLES_OAM + CYCLES_TRANSFER THEN 3
  ELSE 0

\* The STAT-interrupt test of a visible line, on the STAT byte read before
\* the mode bits were updated.
StatInterrupt(currentStat, mode) ==
  \/ BitAnd(currentStat, \h08) # 0 /\ mode = 0
  \/ BitAnd(currentStat, \h20) # 0 /\ mode = 2
  \/ BitAnd(currentStat, \h40) # 0 /\ BitAnd(currentStat, \h04) # 0

RECURSIVE PPULines(_, _)
\* One turn of the line loop with the wrap test `ly > TOTAL_LINES' (faulty
\* variant).
PPULines_WrapLate(r, lyc) ==
  IF r.cc < CYCLES_PER_LINE THEN r
  ELSE
    LET ly1  == U8(r.ly + 1)
        m1   == IF ly1 = VISIBLE_LINES
                  THEN MemWrite(r.mem, ADDR_IF,
                                BitOr(MemRead(r.mem, ADDR_IF), \h01))
                  ELSE r.mem
        vb1  == IF ly1 = VISIBLE_LINES THEN TRUE ELSE r.vblank
        ly2  == IF ly1 > TOTAL_LINES THEN 0 ELSE ly1
        vb2  == IF ly1 > TOTAL_LINES THEN FALSE ELSE vb1
        m2   == MemWrite(m1, ADDR_LY, ly2)
        st1  == IF ly2 = lyc THEN BitOr(r.stat, \h04)
                ELSE BitAnd(r.stat, \hFB)
        mode == IF ly2 >= VISIBLE_LINES THEN 1 ELSE 2
        st2  == BitOr(BitAnd(st1, \hFC), mode)
        m3   == MemWrite(m2, ADDR_STAT, st2)
    IN  PPULines([mem |-> m3, cc |-> r.cc - CYCLES_PER_LINE, ly |-> ly2,
                  stat |-> st2, vblank |-> vb2], lyc)

\* The loop `while (cycleCounter >= CYCLES_PER_LINE)'.  r holds the memory,
\* cycleCounter (cc), the local ly and stat, and vblankFlag; lyc was read
\* before the loop.
PPULines(r, lyc) ==
  IF r.cc < CYCLES_PER_LINE THEN r
  ELSE
    LET ly1  == U8(r.ly + 1)
        m1   == IF ly1 = VISIBLE_LINES
                  THEN MemWrite(r.mem, ADDR_IF,
                                BitOr(MemRead(r.mem, ADDR_IF), \h01))
                  ELSE r.mem
        vb1  == IF ly1 = VISIBLE_LINES THEN TRUE ELSE r.vblank
        ly2  == IF ly1 >= TOTAL_LINES THEN 0 ELSE ly1
        vb2  == IF ly1 >= TOTAL_LINES THEN FALSE ELSE vb1
        m2   == MemWrite(m1, ADDR_LY, ly2)
        st1  == IF ly2 = lyc THEN BitOr(r.stat, \h04)
                ELSE BitAnd(r.stat, \hFB)
        mode == IF ly2 >= VISIBLE_LINES THEN 1 ELSE 2
        st2  == BitOr(BitAnd(st1, \hFC), mode)
        m3   == MemWrite(m2, ADDR_STAT, st2)
    IN  PPULines([mem |-> m3, cc |-> r.cc - CYCLES_PER_LINE, ly |-> ly2,
                  stat |-> st2, vblank |-> vb2], lyc)

\* The part of PPU::step after the line loop: mode bits and STAT interrupt.
PPUMode(m, ly, cc) ==
  LET currentStat == MemRead(m, ADDR_STAT)
      mode    == IF ly < VISIBLE_LINES THEN LineMode(cc) ELSE 1
      newStat == BitOr(BitAnd(currentStat, \hFC), mode)
      m1      == IF newStat # currentStat THEN MemWrite(m, ADDR_STAT, newStat)
                 ELSE m
      raise   == IF ly < VISIBLE_LINES THEN StatInterrupt(currentStat, mode)
                 ELSE BitAnd(currentStat, \h10) # 0
  IN  IF raise
        THEN MemWrite(m1, ADDR_IF, BitOr(MemRead(m1, ADDR_IF), \h02))
        ELSE m1

\* PPU::step(cycles) on memory m and PPU fields p: the new memory and fields.
PPUStep(m, p, cycles) ==
  LET lcdc == MemRead(m, ADDR_LCDC)
      ly   == MemRead(m, ADDR_LY)
  IN  IF BitAnd(lcdc, \h80) = 0
        THEN IF ~p.lcdWasDisabled
               THEN LET m1 == MemWrite(m, ADDR_LY, 0)
                        m2 == MemWrite(m1, ADDR_STAT,
                                       BitAnd(MemRead(m1, ADDR_STAT), \hFC))
                    IN  [mem |-> m2,
                         ppu |-> [p EXCEPT !.cycleCounter = 0,
                                           !.lcdWasDisabled = TRUE]]
               ELSE [mem |-> m, ppu |-> p]
        ELSE LET r == PPULines([mem |-> m, cc |-> p.cycleCounter + cycles,
                                ly |-> ly, stat |-> MemRead(m, ADDR_STAT),
                                vblank |-> p.vblankFlag],
                               MemRead(m, ADDR_LYC))
             IN  [mem |-> PPUMode(r.mem, r.ly, r.cc),
                  ppu |-> [p EXCEPT !.cycleCounter = r.cc,
                                    !.vblankFlag = r.vblank]]

\* PPU::beginFrame.
BeginFrame(m) ==
  LET ly   == MemRead(m, ADDR_LY)
      stat == MemRead(m, ADDR_STAT)
  IN  \/ ly = VISIBLE_LINES /\ BitAnd(stat, \h03) = \h01
      \/ ly % 5 = 0

----------------------------------------------------------------------------
(* State after construction, ROM load and CPU::reset().  IE and IF hold    *)
(* what the program or the host left there.                                *)

InitIE == {\h00, \h1F, \hE0}
InitIF == {\h00, \h06, \h11, \h18}

NoStep ==
  [ran |-> FALSE, op |-> 0, cb |-> 0, taken |-> FALSE, haltSkip |-> FALSE,
   instrCycles |-> 0, cycles |-> 0, prePC |-> 0, preSP |-> 0,
   preIME |-> FALSE, devIF |-> 0, chkIME |-> FALSE, chkIE |-> 0, chkIF |-> 0,
   chkPC |-> 0, chkSP |-> 0, irq |-> FALSE, irqIndex |-> -1, svcIF |-> 0,
   svcStack |-> <<0, 0>>, popLo |-> 0]

NoProbe == [kind |-> "none"]

\* Registers and flags as CPU::reset() leaves them.
ResetRegs ==
  /\ A = \h01
  /\ F = \hB0
  /\ PC = \h0100
  /\ SP = \hFFFE
  /\ BC = \h0013
  /\ DE = \h00D8
  /\ HL = \h014D
  /\ IME = FALSE
  /\ pendingIME = FALSE
  /\ cycleCount = 0

Init ==
  /\ ResetRegs
  /\ \E ie \in InitIE, if \in InitIF :
       mem = (ADDR_IE :> ie) @@ (ADDR_IF :> if)
  /\ divCounter = 0
  /\ timaCounter = 0
  /\ scanlineCycles = 0
  /\ ppu = NoPPU
  /\ steps = 0
  /\ last = NoStep
  /\ probe = NoProbe

----------------------------------------------------------------------------
(* CPU::step, whole call: fetch, switch, cycle counter, timer, PPU (when   *)
(* one is attached), interrupt check, scanline timing.  Under Init no PPU  *)
(* is attached (ppu == nullptr, as in the headless host of main.cpp).      *)

StepBody ==
  /\ \E op \in FetchSet(mem, PC) :
       \E imm \in ImmSet(mem, op, U16(PC + 1)), pp \in PopSet(mem, op, SP) :
         \E ex \in {Execute([A |-> A, F |-> F, PC |-> U16(PC + 1), SP |-> SP,
                             IME |-> IME, pendingIME |-> pendingIME,
                             mem |-> mem, divCounter |-> divCounter,
                             timaCounter |-> timaCounter,
                             scanlineCycles |-> scanlineCycles],
                            op, imm, pp)} :
         \E instr \in {InstrCycles(op, imm[1], ex.taken)} :
         \E s1 \in {UpdateTimer(ex.st, instr)} :
         \E pr \in {IF ppu.attached THEN PPUStep(s1.mem, ppu, instr)
                    ELSE [mem |-> s1.mem, ppu |-> ppu]} :
         \E s2 \in {[s1 EXCEPT !.mem = pr.mem]} :
         \E ck \in {CheckInterrupts(s2)} :
         \E total \in {instr + (IF ck.ret THEN InterruptOverhead ELSE 0)} :
         \E s4 \in {UpdatePPUTiming(ck.st, total)} :
             /\ A' = s4.A
             /\ F' = s4.F
             /\ PC' = s4.PC
             /\ SP' = s4.SP
             /\ IME' = s4.IME
             /\ pendingIME' = s4.pendingIME
             /\ mem' = s4.mem
             /\ divCounter' = s4.divCounter
             /\ timaCounter' = s4.timaCounter
             /\ scanlineCycles' = s4.scanlineCycles
             /\ ppu' = pr.ppu
             /\ cycleCount' = cycleCount + instr
             /\ steps' = steps + 1
             /\ last' =
                  [ran |-> TRUE, op |-> op,
                   cb |-> IF op = CB_PREFIX THEN imm[1] ELSE 0,
                   taken |-> ex.taken, haltSkip |-> ex.haltSkip,
                   instrCycles |-> instr, cycles |-> total,
                   prePC |-> PC, preSP |-> SP, preIME |-> IME,
                   devIF |-> MemRead(ex.st.mem, ADDR_IF),
                   chkIME |-> (s2.IME \/ s2.pendingIME),
                   chkIE |-> MemRead(s2.mem, ADDR_IE),
                   chkIF |-> MemRead(s2.mem, ADDR_IF),
                   chkPC |-> s2.PC, chkSP |-> s2.SP,
                   irq |-> ck.ret, irqIndex |-> ck.index,
                   svcIF |-> MemRead(ck.st.mem, ADDR_IF),
                   svcStack |-> <<MemRead(ck.st.mem, ck.st.SP),
                                  MemRead(ck.st.mem, U16(ck.st.SP + 1))>>,
                   popLo |-> pp[1]]
             /\ UNCHANGED <<BC, DE, HL, probe>>

Step ==
  /\ steps < MaxSteps
  /\ StepBody

Next == Step

Spec == Init /\ [][Next]_vars

----------------------------------------------------------------------------
(* CPU::step under the SDL host (cpu.setPPU(&ppu)), picked up in the       *)
(* middle of a run: the program has programmed the timer and the LCD, and  *)
(* the timer and line counters stand just before their next event.         *)

HostTimers ==
  { [tac |-> \h00, tima |-> \h00, counter |-> 0],
    [tac |-> \h05, tima |-> \hFF, counter |-> 12] }
HostIE         == {\h00, \h1F}
HostSTAT       == {\h02, \h22}
HostLineCycles == {0, 452}

InitHost ==
  /\ A = \h01
  /\ F = \hB0
  /\ PC = \h0100
  /\ SP = \hFFFE
  /\ BC = \h0013
  /\ DE = \h00D8
  /\ HL = \h014D
  /\ IME \in BOOLEAN
  /\ pendingIME = FALSE
  /\ cycleCount = 0
  /\ divCounter = 0
  /\ scanlineCycles \in HostLineCycles
  /\ \E t \in HostTimers, ie \in HostIE, stat \in HostSTAT,
        cc \in HostLineCycles :
       /\ timaCounter = t.counter
       /\ mem = (ADDR_IE :> ie) @@ (ADDR_IF :> \hE0) @@ (ADDR_TAC :> t.tac)
                 @@ (ADDR_TIMA :> t.tima) @@ (ADDR_LCDC :> \h91)
                 @@ (ADDR_STAT :> stat)
       /\ ppu = [attached |-> TRUE, cycleCounter |-> cc,
                 vblankFlag |-> FALSE, lcdWasDisabled |-> FALSE]
  /\ steps = 0
  /\ last = NoStep
  /\ probe = NoProbe

HostStep ==
  /\ steps < MaxHostSteps
  /\ StepBody

NextHost == HostStep

SpecHost == InitHost /\ [][NextHost]_vars


----------------------------------------------------------------------------
(* PPU::step on its own, called as CPU::step calls it: once per            *)
(* instruction, with the instruction's cycles.  Between two calls the      *)
(* program may write LYC, and the CPU may service the STAT interrupt,      *)
(* which clears IF bit 1.  The run starts at LY=0, LYC=0 with the          *)
(* coincidence bit of STAT set accordingly.                                *)

MaxPPUCycles == 912

\* Values `cycles' can have when CPU::step leaves the switch.
StepCycleValues ==
  {InstrCycles(op, 0, t) : op \in (0..255) \ {CB_PREFIX}, t \in BOOLEAN}
    \cup {CBCycles(cb) : cb \in 0..255}

\* LCDC as the program set it: LCD on or off (bit 7).
PPULcdc == {\h91, \h11}
\* STAT as the program set it: one interrupt source enabled or none, the
\* coincidence bit set (LY = LYC = 0), mode 2.
PPUStats == {\h06, \h0E, \h16, \h26, \h46}
\* Values the program writes to LYC.
LycValues == {0, 1}

\* Lines and line positions the mode computation is applied to directly.
ModeLines     == {0, 143, 144, 153}
ModePositions == {0, 79, 80, 251, 252, 455}

LcdOn(m)    == BitAnd(MemRead(m, ADDR_LCDC), \h80) # 0
StatMode(m) == BitAnd(MemRead(m, ADDR_STAT), \h03)
IfBit(m, b) == BitAnd(MemRead(m, ADDR_IF), Pow2(b)) # 0

InitPPU ==
  /\ ResetRegs
  /\ divCounter = 0
  /\ timaCounter = 0
  /\ scanlineCycles = 0
  /\ steps = 0
  /\ last = NoStep
  /\ ppu = [attached |-> TRUE, cycleCounter |-> 0, vblankFlag |-> FALSE,
            lcdWasDisabled |-> FALSE]
  /\ \/ /\ \E lcdc \in PPULcdc, stat \in PPUStats :
             mem = (ADDR_IE :> 0) @@ (ADDR_IF :> \hE0) @@ (ADDR_LCDC :> lcdc)
                   @@ (ADDR_STAT :> stat)
        /\ probe = [kind |-> "ppu", elapsed |-> 0, stepped |-> FALSE]
     \/ /\ \E stat \in PPUStats :
             mem = (ADDR_IE :> 0) @@ (ADDR_IF :> \hE0) @@ (ADDR_LCDC :> \h91)
                   @@ (ADDR_STAT :> stat)
        /\ \E ly \in ModeLines, cc \in ModePositions :
             probe = [kind |-> "mode", done |-> FALSE, ly |-> ly, cc |-> cc]

\* One call ppu->step(cycles).
PPUAdvance ==
  /\ probe.kind = "ppu"
  /\ \E c \in StepCycleValues :
       /\ probe.elapsed + c <= MaxPPUCycles
       /\ \E r \in {PPUStep(mem, ppu, c)} :
            /\ mem' = r.mem
            /\ ppu' = r.ppu
       /\ probe' = [probe EXCEPT !.elapsed = probe.elapsed + c,
                                 !.stepped = TRUE]
  /\ UNCHANGED <<A, F, PC, SP, BC, DE, HL, IME, pendingIME, cycleCount,
                 divCounter, timaCounter, scanlineCycles, steps, last>>

\* The program writes LYC (memory.write(0xFF45, v)).
WriteLYC ==
  /\ probe.kind = "ppu"
  /\ \E v \in LycValues :
       /\ MemRead(mem, ADDR_LYC) # v
       /\ mem' = MemWrite(mem, ADDR_LYC, v)
  /\ probe' = [probe EXCEPT !.stepped = FALSE]
  /\ UNCHANGED <<A, F, PC, SP, BC, DE, HL, IME, pendingIME, cycleCount,
                 divCounter, timaCounter, scanlineCycles, ppu, steps, last>>

\* The CPU services the STAT interrupt: serviceInterrupt clears IF bit 1.
AckSTAT ==
  /\ probe.kind = "ppu"
  /\ IfBit(mem, 1)
  /\ mem' = MemWrite(mem, ADDR_IF,
                     BitAnd(MemRead(mem, ADDR_IF), BitNot8(Pow2(1))))
  /\ UNCHANGED <<A, F, PC, SP, BC, DE, HL, IME, pendingIME, cycleCount,
                 divCounter, timaCounter, scanlineCycles, ppu, steps, last,
                 probe>>

\* The mode part of PPU::step applied to a line and a line position.
ApplyMode ==
  /\ probe.kind = "mode"
  /\ ~probe.done
  /\ mem' = PPUMode(mem, probe.ly, probe.cc)
  /\ probe' = [probe EXCEPT !.done = TRUE]
  /\ UNCHANGED <<A, F, PC, SP, BC, DE, HL, IME, pendingIME, cycleCount,
                 divCounter, timaCounter, scanlineCycles, ppu, steps, last>>

NextPPU == PPUAdvance \/ WriteLYC \/ AckSTAT \/ ApplyMode

SpecPPU == InitPPU /\ [][NextPPU]_vars

----------------------------------------------------------------------------
(* PPU::step while the program switches the LCD off and on: between two    *)
(* calls the program may write LCDC with bit 7 changed.  The run starts    *)
(* with a newly constructed PPU, LY=0, and the LCD on or off.              *)

MaxLcdSteps  == 3
MaxLcdWrites == 2

\* Cycles of the calls: a short instruction, one reaching mode 3 and a
\* whole line.
LcdStepCycles == {4, 84, CYCLES_PER_LINE}

InitLcd ==
  /\ ResetRegs
  /\ divCounter = 0
  /\ timaCounter = 0
  /\ scanlineCycles = 0
  /\ steps = 0
  /\ last = NoStep
  /\ ppu = [attached |-> TRUE, cycleCounter |-> 0, vblankFlag |-> FALSE,
            lcdWasDisabled |-> FALSE]
  /\ \E lcdc \in PPULcdc, stat \in PPUStats :
       mem = (ADDR_IE :> 0) @@ (ADDR_IF :> \hE0) @@ (ADDR_LCDC :> lcdc)
             @@ (ADDR_STAT :> stat)
  /\ probe = [kind |-> "lcd", n |-> 0, writes |-> 0, stepped |-> FALSE,
              preIF |-> \hE0]

\* One call ppu->step(cycles).
LcdAdvance ==
  /\ probe.kind = "lcd"
  /\ probe.n < MaxLcdSteps
  /\ \E c \in LcdStepCycles :
     \E r \in {PPUStep(mem, ppu, c)} :
       /\ mem' = r.mem
       /\ ppu' = r.ppu
  /\ probe' = [probe EXCEPT !.n = probe.n + 1, !.stepped = TRUE,
                            !.preIF = MemRead(mem, ADDR_IF)]
  /\ UNCHANGED <<A, F, PC, SP, BC, DE, HL, IME, pendingIME, cycleCount,
                 divCounter, timaCounter, scanlineCycles, steps, last>>

\* The program switches the LCD off or on (memory.write(0xFF40, v)).
WriteLCDC ==
  /\ probe.kind = "lcd"
  /\ probe.writes < MaxLcdWrites
  /\ mem' = MemWrite(mem, ADDR_LCDC,
                     IF LcdOn(mem) THEN \h11 ELSE \h91)
  /\ probe' = [probe EXCEPT !.writes = probe.writes + 1, !.stepped = FALSE]
  /\ UNCHANGED <<A, F, PC, SP, BC, DE, HL, IME, pendingIME, cycleCount,
                 divCounter, timaCounter, scanlineCycles, ppu, steps, last>>

NextLcd == LcdAdvance \/ WriteLCDC

SpecLcd == InitLcd /\ [][NextLcd]_vars

----------------------------------------------------------------------------
(* PPU::step with the LCD on, started on any line: the calls are made with *)
(* cycle arguments from none to three lines' worth.  The line number the   *)
(* PPU works with (its local `ly') is carried from call to call in the     *)
(* probe, so that the lines after 0 are covered whatever the MMU does with *)
(* a write to LY.                                                          *)

MaxLineSteps == 2

\* Line positions the run starts at and cycle arguments of the calls.
LinePositions == {0, CYCLES_PER_LINE - 1}
LineCycles    == {0, 4, CYCLES_PER_LINE, CYCLES_PER_LINE + 4,
                  2 * CYCLES_PER_LINE, 3 * CYCLES_PER_LINE}

InitLines ==
  /\ ResetRegs
  /\ divCounter = 0
  /\ timaCounter = 0
  /\ scanlineCycles = 0
  /\ steps = 0
  /\ last = NoStep
  /\ mem = (ADDR_IE :> 0) @@ (ADDR_IF :> \hE0) @@ (ADDR_LCDC :> \h91)
           @@ (ADDR_STAT :> \h02)
  /\ \E ly \in 0..(TOTAL_LINES - 1), cc \in LinePositions :
       /\ ppu = [attached |-> TRUE, cycleCounter |-> cc,
                 vblankFlag |-> FALSE, lcdWasDisabled |-> FALSE]
       /\ probe = [kind |-> "lines", n |-> 0, ly |-> ly, preLy |-> ly,
                   preCc |-> cc, cycles |-> 0]

\* One call ppu->step(cycles) on line probe.ly: the line loop, then the
\* mode part.
LineAdvance ==
  /\ probe.kind = "lines"
  /\ probe.n < MaxLineSteps
  /\ \E c \in LineCycles :
     \E r \in {PPULines([mem |-> mem, cc |-> ppu.cycleCounter + c,
                          ly |-> probe.ly, stat |-> MemRead(mem, ADDR_STAT),
                          vblank |-> ppu.vblankFlag],
                         MemRead(mem, ADDR_LYC))} :
       /\ mem' = PPUMode(r.mem, r.ly, r.cc)
       /\ ppu' = [ppu EXCEPT !.cycleCounter = r.cc, !.vblankFlag = r.vblank]
       /\ probe' = [probe EXCEPT !.n = probe.n + 1, !.ly = r.ly,
                                 !.preLy = probe.ly,
                                 !.preCc = ppu.cycleCounter, !.cycles = c]
  /\ UNCHANGED <<A, F, PC, SP, BC, DE, HL, IME, pendingIME, cycleCount,
                 divCounter, timaCounter, scanlineCycles, steps, last>>

NextLines == LineAdvance

SpecLines == InitLines /\ [][NextLines]_vars

----------------------------------------------------------------------------
(* One frame of PPU::step calls: 154 lines of 456 cycles from LY=0 at the  *)
(* start of mode 2, LCD on, cut into calls of any instruction's cycles or  *)
(* of a whole line.  After each call the host polls beginFrame().          *)

FrameCycles == CYCLES_PER_LINE * TOTAL_LINES

FrameStepCycles == StepCycleValues \cup {CYCLES_PER_LINE}

InitFrame ==
  /\ ResetRegs
  /\ divCounter = 0
  /\ timaCounter = 0
  /\ scanlineCycles = 0
  /\ steps = 0
  /\ last = NoStep
  /\ ppu = [attached |-> TRUE, cycleCounter |-> 0, vblankFlag |-> FALSE,
            lcdWasDisabled |-> FALSE]
  /\ mem = (ADDR_IE :> 0) @@ (ADDR_IF :> \hE0) @@ (ADDR_LCDC :> \h91)
           @@ (ADDR_STAT :> \h06)
  /\ probe = [kind |-> "frame", elapsed |-> 0, vblanks |-> 0,
              at144 |-> TRUE, entered144 |-> FALSE, lySeen |-> {0},
              lyChanges |-> 0]

\* One call ppu->step(cycles) of the frame.  The probe counts the calls in
\* which the PPU raised VBlank (vblankFlag set together with IF bit 0) and
\* records the LY values read back after each call.
FrameAdvance ==
  /\ probe.kind = "frame"
  /\ \E c \in FrameStepCycles :
       /\ probe.elapsed + c <= FrameCycles
       /\ \E r \in {PPUStep(mem, ppu, c)} :
          \E ly0 \in {MemRead(mem, ADDR_LY)}, ly1 \in {MemRead(r.mem, ADDR_LY)} :
          \E raised \in {r.ppu.vblankFlag /\ ~ppu.vblankFlag} :
            /\ mem' = r.mem
            /\ ppu' = r.ppu
            /\ probe' =
                 [probe EXCEPT
                    !.elapsed = probe.elapsed + c,
                    !.vblanks = probe.vblanks + (IF raised THEN 1 ELSE 0),
                    !.at144 = probe.at144 /\
                                (raised => (ly0 = 143 /\ ly1 = 144)),
                    !.entered144 = (ly0 # 144 /\ ly1 = 144),
                    !.lySeen = probe.lySeen \cup {ly1},
                    !.lyChanges = probe.lyChanges
                                    + (IF ly1 # ly0 THEN 1 ELSE 0)]
  /\ UNCHANGED <<A, F, PC, SP, BC, DE, HL, IME, pendingIME, cycleCount,
                 divCounter, timaCounter, scanlineCycles, steps, last>>

NextFrame == FrameAdvance

SpecFrame == InitFrame /\ [][NextFrame]_vars

----------------------------------------------------------------------------
(* CPU::updateTimer on its own, called as CPU::step calls it: once per     *)
(* instruction with the instruction's cycles; TAC is left as the program   *)
(* set it.  TIMA, TMA and IF hold what the program left there.             *)

MaxTimerCycles == 96
MaxDivCycles == 320

\* TAC as the program set it: timer off / on, each of the four rates.
TimerTACs == {\h00, \h01, \h04, \h05, \h06, \h07}
\* TIMA far from, one tick before and at its last value before overflow.
TimerTIMAs == {\h00, \hFE, \hFF}
\* TMA as the program set it.
TimerTMAs == {\h00, \hAB}
\* IF with no source pending, and with every source but the timer pending.
TimerIFs == {\hE0, \hFB}

InitTimer ==
  /\ ResetRegs
  /\ divCounter = 0
  /\ timaCounter = 0
  /\ scanlineCycles = 0
  /\ steps = 0
  /\ last = NoStep
  /\ ppu = NoPPU
  /\ \/ /\ \E tac \in TimerTACs, tima \in TimerTIMAs, tma \in TimerTMAs,
              if \in TimerIFs :
             mem = (ADDR_IE :> 0) @@ (ADDR_IF :> if) @@ (ADDR_TAC :> tac)
                   @@ (ADDR_TIMA :> tima) @@ (ADDR_TMA :> tma)
        /\ probe = [kind |-> "timer", n |-> 0, ticks |-> 0,
                    ticked |-> FALSE, preTIMA |-> 0, preIF |-> 0]
     \/ /\ mem = (ADDR_IE :> 0) @@ (ADDR_IF :> \hE0) @@ (ADDR_TAC :> \h00)
        /\ probe = [kind |-> "div", n |-> 0, since |-> 0]

\* One call updateTimer(cycles).  The probe adds up the cycles, counts the
\* calls that incremented TIMA (the calls that took timaCounter down by the
\* period) and keeps TIMA and IF as they were before the call.
TimerAdvance ==
  /\ probe.kind = "timer"
  /\ \E c \in StepCycleValues :
       /\ probe.n + c <= MaxTimerCycles
       /\ \E s1 \in {UpdateTimer([mem |-> mem, divCounter |-> divCounter,
                                   timaCounter |-> timaCounter], c)} :
          \E ticked \in {/\ BitAnd(MemRead(mem, ADDR_TAC), 4) # 0
                         /\ s1.timaCounter # timaCounter + c} :
            /\ mem' = s1.mem
            /\ divCounter' = s1.divCounter
            /\ timaCounter' = s1.timaCounter
            /\ probe' = [probe EXCEPT
                           !.n = probe.n + c,
                           !.ticks = probe.ticks + (IF ticked THEN 1 ELSE 0),
                           !.ticked = ticked,
                           !.preTIMA = MemRead(mem, ADDR_TIMA),
                           !.preIF = MemRead(mem, ADDR_IF)]
  /\ UNCHANGED <<A, F, PC, SP, BC, DE, HL, IME, pendingIME, cycleCount,
                 scanlineCycles, ppu, steps, last>>

\* Values the program writes to DIV.
DivWrites == {\h00, \h5A}

\* One call updateTimer(cycles) with the timer off.  The probe adds up the
\* cycles of the run and the cycles since the last write to DIV.
DivAdvance ==
  /\ probe.kind = "div"
  /\ \E c \in StepCycleValues :
       /\ probe.n + c <= MaxDivCycles
       /\ \E s1 \in {UpdateTimer([mem |-> mem, divCounter |-> divCounter,
                                   timaCounter |-> timaCounter], c)} :
            /\ mem' = s1.mem
            /\ divCounter' = s1.divCounter
            /\ timaCounter' = s1.timaCounter
       /\ probe' = [probe EXCEPT !.n = probe.n + c,
                                 !.since = probe.since + c]
  /\ UNCHANGED <<A, F, PC, SP, BC, DE, HL, IME, pendingIME, cycleCount,
                 scanlineCycles, ppu, steps, last>>

\* The program writes DIV (memory.write(0xFF04, v)).
WriteDIV ==
  /\ probe.kind = "div"
  /\ probe.since > 0
  /\ \E v \in DivWrites : mem' = MemWrite(mem, ADDR_DIV, v)
  /\ probe' = [probe EXCEPT !.since = 0]
  /\ UNCHANGED <<A, F, PC, SP, BC, DE, HL, IME, pendingIME, cycleCount,
                 divCounter, timaCounter, scanlineCycles, ppu, steps, last>>

NextTimer == TimerAdvance \/ DivAdvance \/ WriteDIV

SpecTimer == InitTimer /\ [][NextTimer]_vars

----------------------------------------------------------------------------
(* CPU::reset() called on a CPU in any state, once or twice.               *)

\* Reset that leaves a pending EI in place (faulty variant).
Reset_KeepPendingIME(c) ==
  [c EXCEPT !.A = \h01, !.F = \hB0, !.BC = \h0013, !.DE = \h00D8,
            !.HL = \h014D, !.SP = \hFFFE, !.PC = \h0100, !.cycleCount = 0,
            !.IME = FALSE]

\* CPU::reset on the CPU fields c.
Reset(c) ==
  [c EXCEPT !.A = \h01, !.F = \hB0, !.BC = \h0013, !.DE = \h00D8,
            !.HL = \h014D, !.SP = \hFFFE, !.PC = \h0100, !.cycleCount = 0,
            !.IME = FALSE, !.pendingIME = FALSE]

\* The fields of the CPU object in the current state.
CpuFields ==
  [A |-> A, F |-> F, BC |-> BC, DE |-> DE, HL |-> HL, SP |-> SP, PC |-> PC,
   cycleCount |-> cycleCount, IME |-> IME, pendingIME |-> pendingIME]

MaxResets == 2

\* Register values a running program may have left behind.
AnyByte  == {\h00, \hFF}
AnyFlags == {\h00, \hF0}
AnyWord  == {\h0000, \hFFFF}

InitReset ==
  /\ A \in AnyByte
  /\ F \in AnyFlags
  /\ BC \in AnyWord
  /\ DE \in AnyWord
  /\ HL \in AnyWord
  /\ SP \in AnyWord
  /\ PC \in AnyWord
  /\ IME \in BOOLEAN
  /\ pendingIME \in BOOLEAN
  /\ cycleCount \in {0, 4}
  /\ mem = (ADDR_IE :> 0) @@ (ADDR_IF :> 0)
  /\ divCounter = 0
  /\ timaCounter = 0
  /\ scanlineCycles = 0
  /\ ppu = NoPPU
  /\ steps = 0
  /\ last = NoStep
  /\ probe = [kind |-> "reset", count |-> 0, first |-> CpuFields]

DoReset ==
  /\ probe.kind = "reset"
  /\ probe.count < MaxResets
  /\ \E c \in {Reset(CpuFields)} :
       /\ A' = c.A
       /\ F' = c.F
       /\ BC' = c.BC
       /\ DE' = c.DE
       /\ HL' = c.HL
       /\ SP' = c.SP
       /\ PC' = c.PC
       /\ cycleCount' = c.cycleCount
       /\ IME' = c.IME
       /\ pendingIME' = c.pendingIME
       /\ probe' = [probe EXCEPT !.count = probe.count + 1,
                                 !.first = IF probe.count = 0 THEN c
                                           ELSE probe.first]
  /\ UNCHANGED <<mem, divCounter, timaCounter, scanlineCycles, ppu, steps,
                 last>>

NextReset == DoReset

SpecReset == InitReset /\ [][NextReset]_vars

----------------------------------------------------------------------------
(* CPU::reset() called in the middle of a run (the states of InitHost),    *)
(* after which the program is run again from the entry point.              *)

MaxRerunSteps == 1

\* reset() is called: the CPU fields are set, the function-static counters
\* of updateTimer and updatePPUTiming are not among them.
ResetCpu ==
  /\ probe.kind = "none"
  /\ steps = 0
  /\ \E c \in {Reset(CpuFields)} :
       /\ A' = c.A
       /\ F' = c.F
       /\ BC' = c.BC
       /\ DE' = c.DE
       /\ HL' = c.HL
       /\ SP' = c.SP
       /\ PC' = c.PC
       /\ cycleCount' = c.cycleCount
       /\ IME' = c.IME
       /\ pendingIME' = c.pendingIME
  /\ probe' = [kind |-> "rerun", tima0 |-> MemRead(mem, ADDR_TIMA)]
  /\ UNCHANGED <<mem, divCounter, timaCounter, scanlineCycles, ppu, steps,
                 last>>

\* One CPU::step of the program after the reset.
RerunStep ==
  /\ probe.kind = "rerun"
  /\ steps < MaxRerunSteps
  /\ StepBody

NextRerun == ResetCpu \/ RerunStep

SpecRerun == InitHost /\ [][NextRerun]_vars

----------------------------------------------------------------------------
(* SUB and CP (src/cpu.cpp): the cases of the switch for the register      *)
(* forms (B, C, D, E, H, L and (HL) share one shape, with v the operand    *)
(* read from the register or from memory at HL), for A itself and for the  *)
(* immediate.  Each takes the accumulator a, the flags f and the operand v *)
(* and gives the new A and F.                                              *)

SUB_B  == \h90
SUB_C  == \h91
SUB_D  == \h92
SUB_E  == \h93
SUB_H  == \h94
SUB_L  == \h95
SUB_HL == \h96
SUB_A  == \h97
SUB_d8 == \hD6
CP_B   == \hB8
CP_C   == \hB9
CP_D   == \hBA
CP_E   == \hBB
CP_H   == \hBC
CP_L   == \hBD
CP_HL  == \hBE
CP_A   == \hBF
CP_d8  == \hFE

\* The four setters setZeroFlag .. setCarryFlag called in this order.
SetZNHC(f, z, n, h, c) ==
  SetFlag(SetFlag(SetFlag(SetFlag(f, FLAG_ZERO, z), FLAG_SUBTRACT, n),
                  FLAG_HALF_CARRY, h), FLAG_CARRY, c)

\* case SUB_B .. SUB_L, SUB_HL.
SubR(a, f, v) ==
  LET result == U8(a + 256 - v)
  IN  [A |-> result,
       F |-> SetZNHC(f, result = 0, TRUE,
                     BitAnd(BitXor(BitXor(a, v), result), \h10) # 0, a < v)]

\* case SUB_A.
SubA(a, f) == [A |-> 0, F |-> SetZNHC(f, TRUE, TRUE, FALSE, FALSE)]

\* case SUB_d8.
SubD8(a, f, v) ==
  LET result == U8(a + 256 - v)
  IN  [A |-> BitAnd(result, \hFF),
       F |-> SetZNHC(f, BitAnd(result, \hFF) = 0, TRUE,
                     BitAnd(BitXor(BitXor(a, v), result), \h10) # 0, a < v)]

\* case CP_B .. CP_L, CP_HL.
CpR(a, f, v) ==
  LET result == U8(a + 256 - v)
  IN  [A |-> a,
       F |-> SetZNHC(f, result = 0, TRUE,
                     BitAnd(BitXor(BitXor(a, v), result), \h10) # 0, a < v)]

\* case CP_A.
CpA(a, f) == [A |-> a, F |-> SetZNHC(f, TRUE, TRUE, FALSE, FALSE)]

\* CpD8 with the half-carry flag also set when the low nibbles are equal
\* (faulty variant).
CpD8_HalfOnEqual(a, f, v) ==
  LET result == U8(a + 256 - v)
  IN  [A |-> a,
       F |-> SetZNHC(f, result = 0, TRUE,
                     BitAnd(a, \h0F) <= BitAnd(v, \h0F), a < v)]

\* case CP_d8.
CpD8(a, f, v) ==
  LET result == U8(a + 256 - v)
  IN  [A |-> a,
       F |-> SetZNHC(f, result = 0, TRUE,
                     BitAnd(a, \h0F) < BitAnd(v, \h0F), a < v)]

\* SUB and CP of one operand form.
AluForms ==
  { [sub |-> SUB_B,  cp |-> CP_B],  [sub |-> SUB_C,  cp |-> CP_C],
    [sub |-> SUB_D,  cp |-> CP_D],  [sub |-> SUB_E,  cp |-> CP_E],
    [sub |-> SUB_H,  cp |-> CP_H],  [sub |-> SUB_L,  cp |-> CP_L],
    [sub |-> SUB_HL, cp |-> CP_HL], [sub |-> SUB_A,  cp |-> CP_A],
    [sub |-> SUB_d8, cp |-> CP_d8] }

\* The case of the switch for opcode op applied to a, f and operand v.
Alu(op, a, f, v) ==
  CASE op \in SUB_B..SUB_HL -> SubR(a, f, v)
    [] op = SUB_A           -> SubA(a, f)
    [] op = SUB_d8          -> SubD8(a, f, v)
    [] op \in CP_B..CP_HL   -> CpR(a, f, v)
    [] op = CP_A            -> CpA(a, f)
    [] OTHER                -> CpD8(a, f, v)

\* Operand bytes: every low nibble, and the ends of the high nibble.
AluOperands == (\h00..\h0F) \cup {\h10, \h7F, \h80, \hF0, \hFF}
\* Flags before the instruction.
AluFlags == {\h00, \hF0}
\* Work-RAM address HL points at for the (HL) forms.
AluHL == \hC000

\* The operand the case of opcode op reads: getB() .. getL(), the byte at
\* HL, or the immediate byte imm held in ROM after the opcode.
AluOperand(op, imm) ==
  CASE op \in {SUB_B, CP_B}   -> Hi(BC)
    [] op \in {SUB_C, CP_C}   -> Lo(BC)
    [] op \in {SUB_D, CP_D}   -> Hi(DE)
    [] op \in {SUB_E, CP_E}   -> Lo(DE)
    [] op \in {SUB_H, CP_H}   -> Hi(HL)
    [] op \in {SUB_L, CP_L}   -> Lo(HL)
    [] op \in {SUB_HL, CP_HL} -> MemRead(mem, HL)
    [] op \in {SUB_A, CP_A}   -> A
    [] OTHER                  -> imm

InitAlu ==
  /\ A \in 0..255
  /\ F \in AluFlags
  /\ PC = \h0100
  /\ SP = \hFFFE
  /\ IME = FALSE
  /\ pendingIME = FALSE
  /\ cycleCount = 0
  /\ divCounter = 0
  /\ timaCounter = 0
  /\ scanlineCycles = 0
  /\ ppu = NoPPU
  /\ steps = 0
  /\ last = NoStep
  /\ \E form \in AluForms :
     \E v \in (IF form.sub = SUB_A THEN {A} ELSE AluOperands) :
       /\ BC = (CASE form.sub = SUB_B -> Word(v, \h13)
                  [] form.sub = SUB_C -> Word(\h00, v)
                  [] OTHER            -> \h0013)
       /\ DE = (CASE form.sub = SUB_D -> Word(v, \hD8)
                  [] form.sub = SUB_E -> Word(\h00, v)
                  [] OTHER            -> \h00D8)
       /\ HL = (CASE form.sub = SUB_H  -> Word(v, \h4D)
                  [] form.sub = SUB_L  -> Word(\h01, v)
                  [] form.sub = SUB_HL -> AluHL
                  [] OTHER             -> \h014D)
       /\ mem = (ADDR_IE :> 0) @@ (ADDR_IF :> 0)
                 @@ (AluHL :> (IF form.sub = SUB_HL THEN v ELSE 0))
       /\ probe = [kind |-> "alu", done |-> FALSE, form |-> form, v |-> v,
                   a0 |-> A, f0 |-> F, sub |-> [A |-> 0, F |-> 0]]

\* The CP of the form is executed; the probe keeps what the SUB of the same
\* form gives from the same A, F and operand.
Compare ==
  /\ probe.kind = "alu"
  /\ ~probe.done
  /\ \E cp \in {Alu(probe.form.cp, A, F,
                      AluOperand(probe.form.cp, probe.v))} :
       /\ A' = cp.A
       /\ F' = cp.F
       /\ probe' = [probe EXCEPT
                      !.done = TRUE,
                      !.sub = Alu(probe.form.sub, A, F,
                                  AluOperand(probe.form.sub, probe.v))]
  /\ UNCHANGED <<PC, SP, BC, DE, HL, IME, pendingIME, cycleCount, mem,
                 divCounter, timaCounter, scanlineCycles, ppu, steps, last>>

NextAlu == Compare

SpecAlu == InitAlu /\ [][NextAlu]_vars

----------------------------------------------------------------------------
(* SBC A,v (src/cpu.cpp): the nine cases of the switch (operand B, C, D,   *)
(* E, H, L, (HL), A and the immediate) share one shape.  The operand forms *)
(* are numbered as the opcode's bits 0-2 number them, 8 is the immediate.  *)

SBC_A_B  == \h98
SBC_A_d8 == \hDE

\* The 8-bit operand numbered i: B, C, D, E, H, L, (HL), A.
Reg8(i) ==
  CASE i = 0 -> Hi(BC)
    [] i = 1 -> Lo(BC)
    [] i = 2 -> Hi(DE)
    [] i = 3 -> Lo(DE)
    [] i = 4 -> Hi(HL)
    [] i = 5 -> Lo(HL)
    [] i = 6 -> MemRead(mem, HL)
    [] OTHER -> A

\* BC, DE, HL and memory of a CPU after reset whose operand i was loaded
\* with v (operand 7 is A and operand 8 the immediate: neither is here).
RegFile(i, v) ==
  [BC  |-> (CASE i = 0 -> Word(v, \h13) [] i = 1 -> Word(\h00, v)
              [] OTHER -> \h0013),
   DE  |-> (CASE i = 2 -> Word(v, \hD8) [] i = 3 -> Word(\h00, v)
              [] OTHER -> \h00D8),
   HL  |-> (CASE i = 4 -> Word(v, \h4D) [] i = 5 -> Word(\h01, v)
              [] i = 6 -> AluHL [] OTHER -> \h014D),
   mem |-> (ADDR_IE :> 0) @@ (ADDR_IF :> 0)
             @@ (AluHL :> (IF i = 6 THEN v ELSE 0))]

\* cases SBC_A_B .. SBC_A_A and SBC_A_d8 on accumulator a, flags f and
\* operand v: fullSub and result are uint16_t, v + carry is an int.
Sbc(a, f, v) ==
  LET carry   == IF GetFlag(f, FLAG_CARRY) THEN 1 ELSE 0
      fullSub == U16(v + carry)
      result  == U16(a + 65536 - fullSub)
  IN  [A |-> U8(result),
       F |-> SetZNHC(f, U8(result) = 0, TRUE,
                     BitAnd(BitXor(BitXor(a, v + carry), result), \h10) # 0,
                     a < fullSub)]

\* Operand bytes and flag bytes (carry clear, carry set) the cases are run
\* on, with every value of A.
SbcOperands == {\h00, \h01, \h0F, \h10, \h1F, \h7F, \h80, \hF0, \hFE, \hFF}
SbcFlags    == {\h00, \h10}

InitSbc ==
  /\ A \in 0..255
  /\ F \in SbcFlags
  /\ PC = \h0100
  /\ SP = \hFFFE
  /\ IME = FALSE
  /\ pendingIME = FALSE
  /\ cycleCount = 0
  /\ divCounter = 0
  /\ timaCounter = 0
  /\ scanlineCycles = 0
  /\ ppu = NoPPU
  /\ steps = 0
  /\ last = NoStep
  /\ \E i \in 0..8 :
     \E v \in (IF i = 7 THEN {A} ELSE SbcOperands) :
     \E rf \in {RegFile(i, v)} :
       /\ BC = rf.BC
       /\ DE = rf.DE
       /\ HL = rf.HL
       /\ mem = rf.mem
       /\ probe = [kind |-> "sbc", done |-> FALSE, form |-> i, v |-> v,
                   a0 |-> A, f0 |-> F]

\* The SBC of the form is executed.
SubtractWithCarry ==
  /\ probe.kind = "sbc"
  /\ ~probe.done
  /\ \E op \in {IF probe.form = 8 THEN SBC_A_d8 ELSE SBC_A_B + probe.form} :
     \E r \in {Sbc(A, F, IF probe.form = 8 THEN probe.v
                         ELSE Reg8(probe.form))} :
       /\ A' = r.A
       /\ F' = r.F
       /\ PC' = U16(PC + PCAdvance(op))
  /\ probe' = [probe EXCEPT !.done = TRUE]
  /\ UNCHANGED <<SP, BC, DE, HL, IME, pendingIME, cycleCount, mem,
                 divCounter, timaCounter, scanlineCycles, ppu, steps, last>>

NextSbc == SubtractWithCarry

SpecSbc == InitSbc /\ [][NextSbc]_vars

----------------------------------------------------------------------------
(* BIT, RES and SET (src/cpu.cpp, inner switch of case CB_PREFIX).  A CB   *)
(* opcode 0x40-0xFF encodes the group in bits 6-7 (1 BIT, 2 RES, 3 SET),   *)
(* the bit number in bits 3-5 and the operand in bits 0-2.  The inner      *)
(* switch has cases for BIT b,A (0x47 + 8b), BIT 0,r (0x40-0x46),          *)
(* RES b,A (0x87 + 8b) and SET b,A (0xC7 + 8b); any other opcode takes its *)
(* empty default.                                                          *)

\* The inner switch on opcode cb, with a and f the accumulator and flags
\* and v the operand bits 0-2 select: the new A and F (no case writes
\* another register or memory).
CBBitOp(cb, a, f, v) ==
  LET grp  == cb \div 64
      b    == (cb \div 8) % 8
      r    == cb % 8
      mask == Pow2(b)
      Bit(x) == SetFlag(SetFlag(SetFlag(f, FLAG_ZERO, BitAnd(x, mask) = 0),
                                FLAG_SUBTRACT, FALSE),
                        FLAG_HALF_CARRY, TRUE)
  IN  IF grp = 1 /\ r = 7 THEN [A |-> a, F |-> Bit(a)]
      ELSE IF grp = 1 /\ b = 0 THEN [A |-> a, F |-> Bit(v)]
      ELSE IF grp = 2 /\ r = 7 THEN [A |-> BitAnd(a, 255 - mask), F |-> f]
      ELSE IF grp = 3 /\ r = 7 THEN [A |-> BitOr(a, mask), F |-> f]
      ELSE [A |-> a, F |-> f]

\* The BIT, RES and SET opcodes, and the operand and flag bytes they are
\* run on.
CBBitOpcodes == \h40..\hFF
CBOperands   == {\h00, \h55, \hAA, \hFF}
CBFlags      == {\h00, \hF0}

InitCB ==
  /\ F \in CBFlags
  /\ PC = \h0100
  /\ SP = \hFFFE
  /\ IME = FALSE
  /\ pendingIME = FALSE
  /\ cycleCount = 0
  /\ divCounter = 0
  /\ timaCounter = 0
  /\ scanlineCycles = 0
  /\ ppu = NoPPU
  /\ steps = 0
  /\ last = NoStep
  /\ \E cb \in CBBitOpcodes, v \in CBOperands :
     \E rf \in {RegFile(cb % 8, v)} :
       /\ A = (IF cb % 8 = 7 THEN v ELSE \h01)
       /\ BC = rf.BC
       /\ DE = rf.DE
       /\ HL = rf.HL
       /\ mem = rf.mem
       /\ probe = [kind |-> "cb", done |-> FALSE, cb |-> cb, v |-> v,
                   f0 |-> F]

\* CB cb is executed: the opcode and the CB opcode are fetched, the inner
\* switch is applied.
BitInstruction ==
  /\ probe.kind = "cb"
  /\ ~probe.done
  /\ \E r \in {CBBitOp(probe.cb, A, F, Reg8(probe.cb % 8))} :
       /\ A' = r.A
       /\ F' = r.F
  /\ PC' = U16(PC + 2)
  /\ probe' = [probe EXCEPT !.done = TRUE]
  /\ UNCHANGED <<SP, BC, DE, HL, IME, pendingIME, cycleCount, mem,
                 divCounter, timaCounter, scanlineCycles, ppu, steps, last>>

NextCB == BitInstruction

SpecCB == InitCB /\ [][NextCB]_vars

----------------------------------------------------------------------------
(* DAA (src/cpu.cpp, case DAA) on its own, run on every accumulator value  *)
(* and every combination of the four flags.                                *)

DAA == \h27

\* case DAA with the carry flag left as it was after an addition (faulty
\* variant).
Daa_NoCarryOut(a, f) ==
  LET h == GetFlag(f, FLAG_HALF_CARRY)
      c == GetFlag(f, FLAG_CARRY)
      r == IF ~GetFlag(f, FLAG_SUBTRACT)
             THEN LET six == IF h \/ BitAnd(a, \h0F) > 9 THEN \h06 ELSE 0
                      sxt == IF c \/ a > \h99 THEN \h60 ELSE 0
                  IN  [a |-> U8(a + BitOr(six, sxt)),
                       c |-> c]
             ELSE LET six == IF h THEN \h06 ELSE 0
                      sxt == IF c THEN \h60 ELSE 0
                  IN  [a |-> U8(a + 256 - BitOr(six, sxt)), c |-> c]
      f1 == SetFlag(f, FLAG_ZERO, r.a = 0)
      f2 == SetFlag(f1, FLAG_HALF_CARRY, FALSE)
  IN  [A |-> r.a, F |-> SetFlag(f2, FLAG_CARRY, r.c)]

\* case DAA: a and correction are uint8_t; c starts as the carry flag and
\* is set when the 0x60 correction of an addition applies; N is not
\* written.
Daa(a, f) ==
  LET h == GetFlag(f, FLAG_HALF_CARRY)
      c == GetFlag(f, FLAG_CARRY)
      r == IF ~GetFlag(f, FLAG_SUBTRACT)
             THEN LET six == IF h \/ BitAnd(a, \h0F) > 9 THEN \h06 ELSE 0
                      sxt == IF c \/ a > \h99 THEN \h60 ELSE 0
                  IN  [a |-> U8(a + BitOr(six, sxt)),
                       c |-> c \/ a > \h99]
             ELSE LET six == IF h THEN \h06 ELSE 0
                      sxt == IF c THEN \h60 ELSE 0
                  IN  [a |-> U8(a + 256 - BitOr(six, sxt)), c |-> c]
      f1 == SetFlag(f, FLAG_ZERO, r.a = 0)
      f2 == SetFlag(f1, FLAG_HALF_CARRY, FALSE)
  IN  [A |-> r.a, F |-> SetFlag(f2, FLAG_CARRY, r.c)]

\* The sixteen values of F (Z, N, H, C in the high nibble).
DaaFlags == {16 * k : k \in 0..15}

InitDaa ==
  /\ A \in 0..255
  /\ F \in DaaFlags
  /\ PC = \h0100
  /\ SP = \hFFFE
  /\ BC = \h0013
  /\ DE = \h00D8
  /\ HL = \h014D
  /\ IME = FALSE
  /\ pendingIME = FALSE
  /\ cycleCount = 0
  /\ mem = (ADDR_IE :> 0) @@ (ADDR_IF :> 0)
  /\ divCounter = 0
  /\ timaCounter = 0
  /\ scanlineCycles = 0
  /\ ppu = NoPPU
  /\ steps = 0
  /\ last = NoStep
  /\ probe = [kind |-> "daa", done |-> FALSE, a0 |-> A, f0 |-> F]

\* DAA is executed.
DecimalAdjust ==
  /\ probe.kind = "daa"
  /\ ~probe.done
  /\ \E r \in {Daa(A, F)} :
       /\ A' = r.A
       /\ F' = r.F
  /\ PC' = U16(PC + PCAdvance(DAA))
  /\ probe' = [probe EXCEPT !.done = TRUE]
  /\ UNCHANGED <<SP, BC, DE, HL, IME, pendingIME, cycleCount, mem,
                 divCounter, timaCounter, scanlineCycles, ppu, steps, last>>

NextDaa == DecimalAdjust

SpecDaa == InitDaa /\ [][NextDaa]_vars

----------------------------------------------------------------------------
(* The MMU on its own: byte and word writes of a program to work RAM,     *)
(* echo RAM, I/O and high RAM, and byte writes to the bank registers of an *)
(* MBC1 cartridge without external RAM.                                    *)

MaxWrites == 2
MaxBankWrites == 3

\* Cartridge sizes in 16 KiB banks: 32 KiB, 64 KiB and 2 MiB.
CartBanks == {2, 4, 128}

\* RAM addresses written: work RAM and its echo at both ends, the work RAM
\* that has no echo, an I/O register next to LY, high RAM.
MmuAddrs ==
  {\hC000, \hC001, \hDDFF, \hDE00, \hE000, \hE001, \hFDFF, \hFF43,
   \hFF80}
MmuBytes == {\h00, \h0A, \hFF}
MmuWords == {\h1234, \h00FF, \hABCD}

\* Bank-register addresses written, and the values written to them.
BankAddrs == {\h0000, \h2000, \h3FFF, \h4000, \h6000}
BankBytes == {\h00, \h01, \h0A, \h20, \h3F, \h60, \hFF}

\* Echo addresses read back after every write.
EchoSamples == {\hE000, \hE001, \hF000, \hFDFF}

InitMmu ==
  /\ ResetRegs
  /\ divCounter = 0
  /\ timaCounter = 0
  /\ scanlineCycles = 0
  /\ steps = 0
  /\ last = NoStep
  /\ ppu = NoPPU
  /\ mem = (ADDR_IE :> 0) @@ (ADDR_IF :> 0)
  /\ \/ probe = [kind |-> "mmu", n |-> 0, op |-> "none", addr |-> 0,
                  val |-> 0]
     \/ \E banks \in CartBanks :
          probe = [kind |-> "mbc", n |-> 0, op |-> "none", addr |-> 0,
                   val |-> 0, mbc |-> MbcReset(banks)]

\* memory.write(a, v) to RAM.
MmuWrite ==
  /\ probe.kind = "mmu"
  /\ probe.n < MaxWrites
  /\ \E a \in MmuAddrs, v \in MmuBytes :
       /\ mem' = MemWrite(mem, a, v)
       /\ probe' = [probe EXCEPT !.n = probe.n + 1, !.op = "byte",
                                 !.addr = a, !.val = v]
  /\ UNCHANGED <<A, F, PC, SP, BC, DE, HL, IME, pendingIME, cycleCount,
                 divCounter, timaCounter, scanlineCycles, ppu, steps, last>>

\* memory.write_word(a, x) to RAM.
MmuWriteWord ==
  /\ probe.kind = "mmu"
  /\ probe.n < MaxWrites
  /\ \E a \in MmuAddrs, x \in MmuWords :
       /\ mem' = MemWriteWord(mem, a, x)
       /\ probe' = [probe EXCEPT !.n = probe.n + 1, !.op = "word",
                                 !.addr = a, !.val = x]
  /\ UNCHANGED <<A, F, PC, SP, BC, DE, HL, IME, pendingIME, cycleCount,
                 divCounter, timaCounter, scanlineCycles, ppu, steps, last>>

\* memory.write(a, v) to a bank register: the ROM bytes stay, the bank
\* controller takes the value.
BankWrite ==
  /\ probe.kind = "mbc"
  /\ probe.n < MaxBankWrites
  /\ \E a \in BankAddrs, v \in BankBytes :
       /\ mem' = MemWrite(mem, a, v)
       /\ probe' = [probe EXCEPT !.n = probe.n + 1, !.op = "byte",
                                 !.addr = a, !.val = v,
                                 !.mbc = MbcWrite(probe.mbc, a, v)]
  /\ UNCHANGED <<A, F, PC, SP, BC, DE, HL, IME, pendingIME, cycleCount,
                 divCounter, timaCounter, scanlineCycles, ppu, steps, last>>

NextMmu == MmuWrite \/ MmuWriteWord \/ BankWrite

SpecMmu == InitMmu /\ [][NextMmu]_vars

----------------------------------------------------------------------------
(* The I/O-port shortcuts on their own: a program stores A with            *)
(* LDH (a8),A or LD (FF00+C),A, may reload A with LD A,n, and loads A back *)
(* with LDH A,(a8) or LD A,(FF00+C) from the same offset.  The cases of    *)
(* CPU::step are applied to the record s of A, BC, PC and memory, with PC  *)
(* already past the opcode byte; a8 is the operand byte held in ROM at PC. *)

LDH_A_a8    == \hF0
LD_A_FF00_C == \hF2
LD_FF00_C_A == \hE2

\* case LDH_a8_A: the operand is read and the store is left out.
LdhA8A(s, a8) == [s EXCEPT !.PC = U16(s.PC + 1)]

\* case LDH_A_a8: A is 0xFF for offset 0 and 0x00 for any other offset.
LdhAA8(s, a8) ==
  [s EXCEPT !.PC = U16(s.PC + 1), !.A = IF a8 = \h00 THEN \hFF ELSE \h00]

\* case LD_FF00_C_A: writeByte(0xFF00 + C, A).
LdFF00CA(s) == [s EXCEPT !.mem = MemWrite(s.mem, \hFF00 + Lo(s.BC), s.A)]

\* case LD_A_FF00_C: A = readByte(0xFF00 + C).
LdAFF00C(s) == [s EXCEPT !.A = MemRead(s.mem, \hFF00 + Lo(s.BC))]

\* Offsets into FF00-FFFF the programs use: JOYP, IF, SCY, LY, the two ends
\* of high RAM and IE.
HighOffsets == {\h00, \h0F, \h42, \h44, \h80, \hFE, \hFF}
\* Values of A the programs store and reload.
HighValues == {\h00, \h5A, \hFF}

InitLdh ==
  /\ A \in HighValues
  /\ F = \hB0
  /\ PC = \h0100
  /\ SP = \hFFFE
  /\ DE = \h00D8
  /\ HL = \h014D
  /\ IME = FALSE
  /\ pendingIME = FALSE
  /\ cycleCount = 0
  /\ mem = (ADDR_IE :> 0) @@ (ADDR_IF :> 0)
  /\ divCounter = 0
  /\ timaCounter = 0
  /\ scanlineCycles = 0
  /\ ppu = NoPPU
  /\ steps = 0
  /\ last = NoStep
  /\ \E form \in {"a8", "c"}, off \in HighOffsets :
       /\ BC = (IF form = "c" THEN Word(\h00, off) ELSE \h0013)
       /\ probe = [kind |-> "ldh", phase |-> "start", form |-> form,
                   off |-> off, stored |-> 0]

\* The record of the registers the four cases work on, past the opcode.
HighRegs == [A |-> A, BC |-> BC, PC |-> U16(PC + 1), mem |-> mem]

\* LDH (a8),A or LD (FF00+C),A executes.
StoreHigh ==
  /\ probe.kind = "ldh"
  /\ probe.phase = "start"
  /\ \E r \in {IF probe.form = "a8" THEN LdhA8A(HighRegs, probe.off)
                ELSE LdFF00CA(HighRegs)} :
       /\ A' = r.A
       /\ PC' = r.PC
       /\ mem' = r.mem
  /\ probe' = [probe EXCEPT !.phase = "stored", !.stored = A]
  /\ UNCHANGED <<F, SP, BC, DE, HL, IME, pendingIME, cycleCount, divCounter,
                 timaCounter, scanlineCycles, ppu, steps, last>>

\* LD A,n executes between the store and the load, with n another value.
ReloadA ==
  /\ probe.kind = "ldh"
  /\ probe.phase = "stored"
  /\ \E n \in HighValues \ {A} : A' = n
  /\ PC' = U16(PC + 2)
  /\ probe' = [probe EXCEPT !.phase = "reloaded"]
  /\ UNCHANGED <<F, SP, BC, DE, HL, IME, pendingIME, cycleCount, mem,
                 divCounter, timaCounter, scanlineCycles, ppu, steps, last>>

\* LDH A,(a8) or LD A,(FF00+C) executes.
LoadHigh ==
  /\ probe.kind = "ldh"
  /\ probe.phase \in {"stored", "reloaded"}
  /\ \E r \in {IF probe.form = "a8" THEN LdhAA8(HighRegs, probe.off)
                ELSE LdAFF00C(HighRegs)} :
       /\ A' = r.A
       /\ PC' = r.PC
       /\ mem' = r.mem
  /\ probe' = [probe EXCEPT !.phase = "loaded"]
  /\ UNCHANGED <<F, SP, BC, DE, HL, IME, pendingIME, cycleCount, divCounter,
                 timaCounter, scanlineCycles, ppu, steps, last>>

NextLdh == StoreHigh \/ ReloadA \/ LoadHigh

SpecLdh == InitLdh /\ [][NextLdh]_vars

----------------------------------------------------------------------------
(* Stack helpers on their own: push(x) then pop(), from a stack pointer    *)
(* set with setSP.                                                         *)

StackSPs    == {\h0000, \hD000, \hE002, \hFF80, \hFFFE}
StackValues == {\h0000, \h0103, \h00FF, \h1234, \h8001, \hABAB, \hFF00, \hFFFF}

InitStack ==
  /\ A = \h01
  /\ F = \hB0
  /\ PC = \h0100
  /\ SP \in StackSPs
  /\ BC = \h0013
  /\ DE = \h00D8
  /\ HL = \h014D
  /\ IME = FALSE
  /\ pendingIME = FALSE
  /\ cycleCount = 0
  /\ mem = (ADDR_IE :> 0) @@ (ADDR_IF :> 0)
  /\ divCounter = 0
  /\ timaCounter = 0
  /\ scanlineCycles = 0
  /\ ppu = NoPPU
  /\ steps = 0
  /\ last = NoStep
  /\ \E x \in StackValues :
       probe = [kind |-> "stack", phase |-> "start", x |-> x, sp0 |-> SP,
                lo |-> 0, hi |-> 0, ret |-> 0]

DoPush ==
  /\ probe.kind = "stack"
  /\ probe.phase = "start"
  /\ \E r \in {Push(mem, SP, probe.x)} :
       /\ mem' = r.mem
       /\ SP' = r.SP
  /\ probe' = [probe EXCEPT !.phase = "pushed"]
  /\ UNCHANGED <<A, F, PC, IME, pendingIME, cycleCount, divCounter,
                 timaCounter, scanlineCycles, steps, last, BC, DE, HL, ppu>>

DoPop ==
  /\ probe.kind = "stack"
  /\ probe.phase = "pushed"
  /\ \E lo \in ReadSet(mem, SP), hi \in ReadSet(mem, U16(SP + 1)) :
       \E r \in {Pop(SP, lo, hi)} :
         /\ SP' = r.SP
         /\ probe' = [probe EXCEPT !.phase = "popped", !.lo = lo, !.hi = hi,
                                   !.ret = r.value]
  /\ UNCHANGED <<A, F, PC, IME, pendingIME, cycleCount, mem, divCounter,
                 timaCounter, scanlineCycles, steps, last, BC, DE, HL, ppu>>

NextStack == DoPush \/ DoPop

SpecStack == InitStack /\ [][NextStack]_vars

----------------------------------------------------------------------------
(* Cycle cost of one CPU::step call for every opcode byte: the value the   *)
(* switch leaves in `cycles', plus the interrupt overhead when             *)
(* checkInterrupts() returns true; and the distance the call moves PC when *)
(* no jump is taken.                                                       *)

InitCycles ==
  /\ ResetRegs
  /\ mem = (ADDR_IE :> 0) @@ (ADDR_IF :> 0)
  /\ divCounter = 0
  /\ timaCounter = 0
  /\ scanlineCycles = 0
  /\ ppu = NoPPU
  /\ steps = 0
  /\ last = NoStep
  /\ \E op \in 0..255, irq \in BOOLEAN :
       \E cb \in (IF op = CB_PREFIX THEN 0..255 ELSE {0}),
          taken \in (IF op \in Conditional THEN BOOLEAN ELSE {FALSE}) :
         probe = [kind |-> "cycles", done |-> FALSE, op |-> op, cb |-> cb,
                  taken |-> taken, irq |-> irq, instr |-> 0, total |-> 0,
                  advance |-> 0]

Charge ==
  /\ probe.kind = "cycles"
  /\ ~probe.done
  /\ \E instr \in {InstrCycles(probe.op, probe.cb, probe.taken)} :
       probe' = [probe EXCEPT !.done = TRUE, !.instr = instr,
                   !.total = instr + (IF probe.irq THEN InterruptOverhead
                                      ELSE 0),
                   !.advance = PCAdvance(probe.op)]
  /\ UNCHANGED <<A, F, PC, SP, IME, pendingIME, cycleCount, mem, divCounter,
                 timaCounter, scanlineCycles, steps, last, BC, DE, HL, ppu>>

NextCycles == Charge

SpecCycles == InitCycles /\ [][NextCycles]_vars

----------------------------------------------------------------------------
(* Properties *)

RECURSIVE LowestSetBit(_)
\* Number of the lowest bit set in x (x > 0).
LowestSetBit(x) == IF x % 2 = 1 THEN 0 ELSE 1 + LowestSetBit(x \div 2)

\* IE & IF as the interrupt check of the last step read them.
LastFired == BitAnd(last.chkIE, last.chkIF)

\* The last step called serviceInterrupt.
Dispatched == last.ran /\ last.irqIndex >= 0

\* C11: an IF bit set by the timer or the PPU while they are advanced by the
\* cycles of a step is not examined by the interrupt check of that same
\* step: the bit a step dispatches was already set in IF before the step
\* advanced the timer and the PPU.
C11_DeviceBitWaitsForNextStep ==
  Dispatched => BitAnd(last.devIF, Pow2(last.irqIndex)) # 0

\* C12: when HALT has executed with IME=false and (IE & IF) != 0, the byte
\* after HALT is fetched without PC being incremented on that fetch: after
\* the following one-byte instruction (INC A) PC still points at its opcode.
C12_HaltBugRepeatsByte ==
  [][ ( /\ last.ran /\ last.op = HALT
        /\ ~last.preIME /\ ~last.haltSkip /\ ~last.irq
        /\ last'.ran /\ steps' = steps + 1
        /\ last'.op = INC_A /\ ~last'.irq )
      => PC' = PC ]_vars

\* C13: reset() called from any CPU state sets AF=0x01B0, BC=0x0013,
\* DE=0x00D8, HL=0x014D, SP=0xFFFE, PC=0x0100, IME=false and
\* pendingIME=false; after a second reset() the CPU state is the one the
\* first reset() left.
C13_ResetBootDefaults ==
  (probe.kind = "reset" /\ probe.count >= 1) =>
    /\ GetAF(A, F) = \h01B0
    /\ BC = \h0013
    /\ DE = \h00D8
    /\ HL = \h014D
    /\ SP = \hFFFE
    /\ PC = \h0100
    /\ ~IME
    /\ ~pendingIME
    /\ CpuFields = probe.first

\* C13 witness: reset() has been called twice.
C13_Witness == probe.kind = "reset" /\ probe.count = 2

\* C14: a step that executed an undefined opcode byte does not continue as
\* a normal instruction: unless it reported an error to the host (step()
\* has no channel but its return value, a cycle count), the CPU is halted
\* for all later steps, so a later step changes no register.
C14_UndefinedOpcodeStops ==
  [][ ( /\ last.ran /\ last.op \in UndefinedOpcodes /\ last.cycles > 0
        /\ steps' = steps + 1 )
      => (PC' = PC /\ SP' = SP /\ A' = A /\ F' = F) ]_vars

\* Mode of line ly at position p of its 456 cycles, as the LCD timing
\* defines it.
ImpliedMode(ly, p) ==
  IF ly >= 144 THEN 1
  ELSE IF p <= 79 THEN 2
  ELSE IF p <= 251 THEN 3
  ELSE 0

\* Position of a mode in the order 2, 3, 0 of a visible line.
ModeRank(mode) == CASE mode = 2 -> 0 [] mode = 3 -> 1 [] OTHER -> 2

C18_StatInterruptOnEntryOnly ==
  [][ ( /\ probe.kind = "ppu" /\ probe.stepped /\ probe'.stepped
        /\ LcdOn(mem)
        /\ BitAnd(MemRead(mem, ADDR_STAT), \h40) = 0
        /\ BitAnd(MemRead(mem, ADDR_STAT), \h38) # 0
        /\ ~IfBit(mem, 1)
        /\ MemRead(mem', ADDR_LY) = MemRead(mem, ADDR_LY)
        /\ ppu'.cycleCounter > ppu.cycleCounter
        /\ StatMode(mem') = StatMode(mem) )
      => ~IfBit(mem', 1) ]_vars

\* C19: STAT bit 2 equals (LY = LYC) after every PPU step, also when LYC was
\* written or LY changed since the previous step.
C19_CoincidenceBitTracksLY ==
  (probe.kind = "ppu" /\ probe.stepped /\ LcdOn(mem)) =>
    ((BitAnd(MemRead(mem, ADDR_STAT), \h04) # 0)
       <=> (MemRead(mem, ADDR_LY) = MemRead(mem, ADDR_LYC)))

C17_FrameReadyOnlyAt144 ==
  (probe.kind = "frame" /\ probe.elapsed > 0 /\ BeginFrame(mem)) =>
    (MemRead(mem, ADDR_LY) = 144 /\ StatMode(mem) = 1 /\ probe.entered144)

\* Timer period in T-cycles selected by TAC bits 0-1.
TimerPeriod(tac) ==
  CASE tac % 4 = 0 -> 1024 [] tac % 4 = 1 -> 16 [] tac % 4 = 2 -> 64
    [] OTHER -> 256

\* C20: with TAC bit 2 set and no writes to the timer registers, after N
\* T-cycles TIMA has been incremented exactly floor(N / p) times, p being
\* the period TAC selects; with TAC bit 2 clear TIMA never changes.
C20_TimaTicksPerPeriod ==
  probe.kind = "timer" =>
    LET tac == MemRead(mem, ADDR_TAC)
    IN  IF (tac \div 4) % 2 = 1
          THEN probe.ticks = probe.n \div TimerPeriod(tac)
          ELSE probe.ticks = 0

\* C21: a timer increment with TIMA = 0xFF loads TIMA with TMA and sets IF
\* bit 2, leaving every other IF bit as it was; an increment from any other
\* TIMA value adds 1 and changes no IF bit.
C21_OverflowReloadsTMA ==
  (probe.kind = "timer" /\ probe.ticked) =>
    IF probe.preTIMA = \hFF
      THEN /\ MemRead(mem, ADDR_TIMA) = MemRead(mem, ADDR_TMA)
           /\ MemRead(mem, ADDR_IF) = BitOr(probe.preIF, \h04)
      ELSE /\ MemRead(mem, ADDR_TIMA) = probe.preTIMA + 1
           /\ MemRead(mem, ADDR_IF) = probe.preIF

\* C21 witness: TIMA has overflowed with TMA = 0xAB and the timer bit clear
\* while the other four sources were pending.
C21_Witness ==
  /\ probe.kind = "timer" /\ probe.ticked
  /\ probe.preTIMA = \hFF
  /\ probe.preIF = \hFB
  /\ MemRead(mem, ADDR_TIMA) = \hAB
  /\ MemRead(mem, ADDR_IF) = \hFF

\* C22: DIV is the upper 8 bits of a 16-bit T-cycle counter that a write to
\* 0xFF04 clears: DIV equals the number of whole 256-cycle periods consumed
\* since the last write to 0xFF04 (since the start when there was none).
C22_DivCountsCycles ==
  probe.kind = "div" =>
    MemRead(mem, ADDR_DIV) = (probe.since \div 256) % 256

\* Cost of a CB-prefixed instruction by its encoding: the low three bits
\* select the operand (6 is (HL)), opcodes 0x40..0x7F are BIT.
CBCost(cb) ==
  IF cb % 8 # 6 THEN 8
  ELSE IF cb \in \h40..\h7F THEN 12
  ELSE 16

\* C23: a CB-prefixed instruction costs 12 T-cycles for BIT b,(HL), 16 for
\* RES, SET and rotate/shift/swap on (HL), and 8 for every register form.
C23_CBCostByForm ==
  (probe.kind = "cycles" /\ probe.done /\ probe.op = CB_PREFIX) =>
    probe.instr = CBCost(probe.cb)

\* C24: for every A and operand v, CP v leaves Z, N, H and C as SUB v
\* leaves them from the same A, F and v, and leaves A unchanged, in the
\* register forms, the (HL) form, the A form and the immediate form.
C24_CpFlagsAsSub ==
  (probe.kind = "alu" /\ probe.done) =>
    /\ F = probe.sub.F
    /\ A = probe.a0

\* C24 witness: CP d8 of 0x10 with 0x01 (half borrow, no borrow) has left
\* N and H set, Z and C clear, and A at 0x10.
C24_Witness ==
  /\ probe.kind = "alu" /\ probe.done
  /\ probe.form.cp = CP_d8
  /\ probe.a0 = \h10 /\ probe.v = \h01
  /\ F = \h60
  /\ A = \h10
  /\ probe.sub.A = \h0F

\* C25: every address a in E000..FDFF reads what a - 0x2000 reads; a byte
\* written to an echo address is read back there and at a - 0x2000, and a
\* byte written to C000..DDFF is read back at a + 0x2000.
C25_EchoMirrorsWorkRam ==
  probe.kind = "mmu" =>
    /\ \A a \in EchoSamples : MemRead(mem, a) = MemRead(mem, a - \h2000)
    /\ (probe.op = "byte" /\ probe.addr \in \hE000..\hFDFF) =>
         /\ MemRead(mem, probe.addr) = probe.val
         /\ MemRead(mem, probe.addr - \h2000) = probe.val
    /\ (probe.op = "byte" /\ probe.addr \in \hC000..\hDDFF) =>
         /\ MemRead(mem, probe.addr) = probe.val
         /\ MemRead(mem, probe.addr + \h2000) = probe.val

\* C25 witness: after a write to work RAM, a write of another value to the
\* echo of the same byte has changed it.
C25_Witness ==
  /\ probe.kind = "mmu" /\ probe.n = 2
  /\ probe.op = "byte" /\ probe.addr = \hE001 /\ probe.val = \hFF
  /\ MemRead(mem, \hC001) = \hFF
  /\ MemRead(mem, \hC000) = \h0A

\* C26 as stated: for any writable address a and any x, write_word(a, x)
\* followed by read_word(a) returns x, read(a) is the low byte of x and
\* read(a+1) the high byte.
C26_WordRoundTrip ==
  (probe.kind = "mmu" /\ probe.op = "word" /\ PlainRam(probe.addr)) =>
    /\ MemReadWord(mem, probe.addr) = probe.val
    /\ MemRead(mem, probe.addr) = Lo(probe.val)
    /\ MemRead(mem, U16(probe.addr + 1)) = Hi(probe.val)

\* C26 amended: as C26 for every address a such that both a and a+1 are
\* writable (each stores the byte written to it).
C26_WordRoundTrip_BothBytes ==
  (/\ probe.kind = "mmu" /\ probe.op = "word"
   /\ PlainRam(probe.addr) /\ PlainRam(U16(probe.addr + 1))) =>
    /\ MemReadWord(mem, probe.addr) = probe.val
    /\ MemRead(mem, probe.addr) = Lo(probe.val)
    /\ MemRead(mem, U16(probe.addr + 1)) = Hi(probe.val)

\* C26 witness: write_word(0xC001, 0x1234) has stored 0x34 at 0xC001 and
\* 0x12 at 0xC002.
C26_Witness ==
  /\ probe.kind = "mmu" /\ probe.op = "word"
  /\ probe.addr = \hC001 /\ probe.val = \h1234
  /\ MemRead(mem, \hC001) = \h34
  /\ MemRead(mem, \hC002) = \h12

\* C27: after any sequence of writes to the MBC1 registers the ROM bank
\* mapped at 4000..7FFF is not bank 0, and a write to 2000..3FFF of a value
\* whose low 5 bits are 0 leaves the 5-bit bank register at 1.
C27_RomBankNeverZero ==
  probe.kind = "mbc" =>
    /\ EffectiveRomBank(probe.mbc) # 0
    /\ (/\ probe.op = "byte" /\ probe.addr \in \h2000..\h3FFF
        /\ probe.val % 32 = 0) => probe.mbc.romBank = 1

\* C27 witness: after the upper bits were set to 3 in mode 0 and a bank
\* other than 1 selected, 0x20 was written to 0x2000 on a 2 MiB cartridge:
\* the bank mapped is 0x61.
C27_Witness ==
  /\ probe.kind = "mbc" /\ probe.n = 3
  /\ probe.op = "byte" /\ probe.addr = \h2000 /\ probe.val = \h20
  /\ probe.mbc.banks = 128
  /\ probe.mbc.upper = 3
  /\ EffectiveRomBank(probe.mbc) = \h61

\* Encoded length of a base opcode of the SM83: opcode byte plus an 8-bit
\* or a 16-bit immediate (the CB prefix and STOP are followed by one byte).
EncodedLength(op) ==
  IF op \in {\h01, \h11, \h21, \h31, \h08, \hC2, \hC3, \hC4, \hCA, \hCC,
             \hCD, \hD2, \hD4, \hDA, \hDC, \hEA, \hFA} THEN 3
  ELSE IF op \in {\h06, \h0E, \h16, \h1E, \h26, \h2E, \h36, \h3E, \hC6,
                  \hCE, \hD6, \hDE, \hE6, \hEE, \hF6, \hFE, \hE0, \hF0,
                  \hE8, \hF8, \h18, \h20, \h28, \h30, \h38, \hCB, \h10}
    THEN 2
  ELSE 1

\* Opcodes that always leave through a jump: JR, JP, JP (HL), CALL, RET,
\* RETI and the eight RST.
AlwaysJumps ==
  {\h18, \hC3, \hE9, \hCD, \hC9, \hD9,
   \hC7, \hCF, \hD7, \hDF, \hE7, \hEF, \hF7, \hFF}

\* C28: every instruction that is not a taken jump, call, return or RST
\* leaves PC at its value before the step plus the encoded length of the
\* instruction: 1, 2 with an 8-bit immediate, 3 with a 16-bit immediate.
C28_PCAdvancesByLength ==
  (/\ probe.kind = "cycles" /\ probe.done /\ ~probe.taken
   /\ probe.op \notin AlwaysJumps \cup UndefinedOpcodes) =>
    probe.advance = EncodedLength(probe.op)

\* C29: when CPU::step drives an attached PPU with the LCD on, LY advances
\* by one for each 456 T-cycles the CPU consumes: a step that returns c
\* cycles from position p of a line leaves LY advanced by (p + c) div 456
\* lines, modulo 154.
C29_LYAdvancesPer456 ==
  [][ ( /\ steps' = steps + 1
        /\ ppu.attached /\ LcdOn(mem) /\ LcdOn(mem') )
      => MemRead(mem', ADDR_LY) =
           (MemRead(mem, ADDR_LY)
              + (ppu.cycleCounter + last'.cycles) \div CYCLES_PER_LINE)
             % TOTAL_LINES ]_vars

\* C30: in every step the timer and the PPU are advanced by the number of
\* T-cycles the step returns, the 20 cycles of an interrupt dispatch
\* included: the DIV prescaler moves on by the returned cycles (modulo
\* 256) and, with the LCD on, so does the PPU's line position (modulo 456).
C30_DevicesAdvanceByReturnedCycles ==
  [][ steps' = steps + 1 =>
        /\ divCounter' = (divCounter + last'.cycles) % 256
        /\ (ppu.attached /\ LcdOn(mem) /\ LcdOn(mem')) =>
             ppu'.cycleCounter =
               (ppu.cycleCounter + last'.cycles) % CYCLES_PER_LINE ]_vars

\* C31: a step that starts with IME and pendingIME both false and executes
\* neither EI nor RETI dispatches no interrupt, whatever IE and IF hold: the
\* interrupt check returns false, PC and SP stay as the instruction left
\* them, no IF bit is cleared, no 20-cycle charge is added, and IME and
\* pendingIME are still false afterwards.
C31_NoDispatchWhileDisabled ==
  [][ (steps' = steps + 1 /\ ~IME /\ ~pendingIME
         /\ last'.op \notin {EI, RETI}) =>
        /\ ~last'.irq
        /\ last'.irqIndex = -1
        /\ last'.cycles = last'.instrCycles
        /\ PC' = last'.chkPC
        /\ SP' = last'.chkSP
        /\ last'.svcIF = last'.chkIF
        /\ ~IME'
        /\ ~pendingIME' ]_vars

\* C31 witness: the second step of a run executed NOP with interrupts
\* disabled while an enabled source was pending, and dispatched nothing.
C31_Witness ==
  /\ steps = 2
  /\ last.op = NOP
  /\ ~last.preIME
  /\ ~last.chkIME
  /\ BitAnd(LastFired, \h1F) # 0
  /\ ~last.irq
  /\ PC = last.chkPC

\* C32: LDH (a8),A and LD (FF00+C),A store A at 0xFF00 + offset through
\* the MMU, LDH A,(a8) and LD A,(FF00+C) load A from that address, so that
\* a value stored to a high-RAM or I/O byte is the value a following load
\* of the same offset puts in A.
C32_HighStoreLoadRoundTrip ==
  probe.kind = "ldh" =>
    /\ (probe.phase # "start" /\ PlainRam(\hFF00 + probe.off)) =>
          MemRead(mem, \hFF00 + probe.off) = probe.stored
    /\ probe.phase = "loaded" =>
          /\ A = MemRead(mem, \hFF00 + probe.off)
          /\ PlainRam(\hFF00 + probe.off) => A = probe.stored

\* C33: SBC A,v with carry-in c gives A = (A - v - c) mod 256, Z iff the
\* result is 0, N set, H iff (A & 0x0F) < (v & 0x0F) + c and C iff
\* A < v + c, for every A, every operand form and both values of c.
C33_SbcResultAndFlags ==
  (probe.kind = "sbc" /\ probe.done) =>
    LET c == IF GetFlag(probe.f0, FLAG_CARRY) THEN 1 ELSE 0
    IN  /\ A = (probe.a0 + 512 - probe.v - c) % 256
        /\ GetFlag(F, FLAG_ZERO) <=> (A = 0)
        /\ GetFlag(F, FLAG_SUBTRACT)
        /\ GetFlag(F, FLAG_HALF_CARRY) <=>
              (BitAnd(probe.a0, \h0F) < BitAnd(probe.v, \h0F) + c)
        /\ GetFlag(F, FLAG_CARRY) <=> (probe.a0 < probe.v + c)

\* C34: a CB opcode 0x40-0xFF acts on the operand its bits 0-2 select (B,
\* C, D, E, H, L, (HL), A): BIT b,r sets Z iff bit b of r is 0 and leaves r
\* as it was; RES b,r clears and SET b,r sets bit b of r, leaving the other
\* bits of r and the flags unchanged.
C34_BitOpsOnEveryOperand ==
  (probe.kind = "cb" /\ probe.done) =>
    LET grp  == probe.cb \div 64
        mask == Pow2((probe.cb \div 8) % 8)
        r    == Reg8(probe.cb % 8)
    IN  /\ grp = 1 => /\ GetFlag(F, FLAG_ZERO) <=> (BitAnd(probe.v, mask) = 0)
                      /\ r = probe.v
        /\ grp = 2 => /\ r = BitAnd(probe.v, 255 - mask)
                      /\ F = probe.f0
        /\ grp = 3 => /\ r = BitOr(probe.v, mask)
                      /\ F = probe.f0

\* C35: DAA, for every A and every N, H, C: after an addition (N = 0) it
\* adds 0x06 if H or (A & 0x0F) > 9 and 0x60 if C or A > 0x99, and C is set
\* iff the 0x60 correction was applied; after a subtraction (N = 1) it
\* subtracts 0x06 if H and 0x60 if C, and C is unchanged; Z is set iff the
\* new A is 0, H is cleared and N is unchanged.
C35_DaaAdjusts ==
  (probe.kind = "daa" /\ probe.done) =>
    LET a0  == probe.a0
        n   == GetFlag(probe.f0, FLAG_SUBTRACT)
        h   == GetFlag(probe.f0, FLAG_HALF_CARRY)
        c   == GetFlag(probe.f0, FLAG_CARRY)
        six == IF n THEN h ELSE h \/ a0 % 16 > 9
        sxt == IF n THEN c ELSE c \/ a0 > 153
        adj == (IF six THEN 6 ELSE 0) + (IF sxt THEN 96 ELSE 0)
    IN  /\ A = (IF n THEN a0 + 256 - adj ELSE a0 + adj) % 256
        /\ GetFlag(F, FLAG_CARRY) <=> sxt
        /\ GetFlag(F, FLAG_ZERO) <=> (A = 0)
        /\ ~GetFlag(F, FLAG_HALF_CARRY)
        /\ GetFlag(F, FLAG_SUBTRACT) <=> n

\* C35 witness: DAA after an addition that left A = 0x9A with no flag set
\* has applied both corrections: A = 0x00 with Z and C set.
C35_Witness ==
  /\ probe.kind = "daa"
  /\ probe.done
  /\ probe.a0 = \h9A
  /\ probe.f0 = \h00
  /\ A = \h00
  /\ F = \h90

\* C36: with STAT bit 6 set (and the mode sources off), a PPU step in
\* which the coincidence bit rises (LY has become equal to LYC) sets IF
\* bit 1, and a later PPU step that starts with IF bit 1 clear and the
\* coincidence bit already set, and stays on the line, does not set IF bit 1
\* again.
C36_LycInterruptOnRisingEdge ==
  /\ [][ ( /\ probe.kind = "ppu" /\ probe'.stepped
           /\ probe'.elapsed > probe.elapsed
           /\ LcdOn(mem)
           /\ BitAnd(MemRead(mem, ADDR_STAT), \h40) # 0
           /\ BitAnd(MemRead(mem, ADDR_STAT), \h04) = 0
           /\ BitAnd(MemRead(mem', ADDR_STAT), \h04) # 0 )
         => IfBit(mem', 1) ]_vars
  /\ [][ ( /\ probe.kind = "ppu" /\ probe.stepped /\ probe'.stepped
           /\ probe'.elapsed > probe.elapsed
           /\ LcdOn(mem)
           /\ BitAnd(MemRead(mem, ADDR_STAT), \h40) # 0
           /\ BitAnd(MemRead(mem, ADDR_STAT), \h38) = 0
           /\ BitAnd(MemRead(mem, ADDR_STAT), \h04) # 0
           /\ ~IfBit(mem, 1)
           /\ MemRead(mem', ADDR_LY) = MemRead(mem, ADDR_LY)
           /\ ppu'.cycleCounter > ppu.cycleCounter )
         => ~IfBit(mem', 1) ]_vars

\* C37: after every PPU::step called while LCDC bit 7 is clear, LY is 0,
\* the STAT mode bits are 0, the line cycle counter is 0 and the call has
\* set no IF bit, also when the LCD was switched off again after having
\* been on.
C37_LcdOffHoldsPpuIdle ==
  (probe.kind = "lcd" /\ probe.stepped /\ ~LcdOn(mem)) =>
    /\ MemRead(mem, ADDR_LY) = 0
    /\ StatMode(mem) = 0
    /\ ppu.cycleCounter = 0
    /\ MemRead(mem, ADDR_IF) = probe.preIF

\* C38: after every PPU::step with the LCD on, started with LY in 0..153,
\* the line number is in 0..153 (in the PPU and in the LY register) and the
\* position within the line in 0..455; the call has advanced
\* floor((cycleCounter + cycles) / 456) lines, the line after 153 being 0.
C38_LineAndPositionInRange ==
  (probe.kind = "lines" /\ probe.n > 0) =>
    /\ probe.ly \in 0..153
    /\ MemRead(mem, ADDR_LY) \in 0..153
    /\ ppu.cycleCounter \in 0..455
    /\ ppu.cycleCounter = (probe.preCc + probe.cycles) % 456
    /\ probe.ly =
         (probe.preLy + ((probe.preCc + probe.cycles) \div 456)) % 154

\* C38 witness: a call of two lines' worth of cycles made on line 153 has
\* left the PPU on line 1.
C38_Witness ==
  /\ probe.kind = "lines"
  /\ probe.n > 0
  /\ probe.preLy = 153
  /\ probe.cycles = 2 * CYCLES_PER_LINE
  /\ probe.ly = 1

\* C39: after reset() the prescaler counters of DIV and TIMA and the
\* scanline cycle counter are 0 as after a fresh start, so the program run
\* again sees the timer as a fresh run does: its first instruction, shorter
\* than the shortest timer period (16 T-cycles), leaves TIMA as it was.
C39_ResetRestoresTimingState ==
  probe.kind = "rerun" =>
    /\ steps = 0 =>
          (divCounter = 0 /\ timaCounter = 0 /\ scanlineCycles = 0)
    /\ (steps = 1 /\ last.instrCycles < 16) =>
          MemRead(mem, ADDR_TIMA) = probe.tima0

\* C1: a step either executes one instruction or performs one interrupt
\* dispatch, never both: a step that dispatches an interrupt returns exactly
\* 20 T-cycles and charges no instruction in the same call.
C1_DispatchOrInstruction ==
  Dispatched => (last.cycles = 20 /\ last.instrCycles = 0)

C3_EIDelaysOneInstruction ==
  (last.ran /\ last.op = EI /\ ~last.preIME) => (~IME /\ ~Dispatched)

\* C4: after HALT executed with IME true or IE & IF = 0, every following
\* step returns 4 cycles and leaves PC unchanged while IE & IF = 0.
C4_HaltHoldsPC ==
  [][ ( /\ last.ran
        /\ last.op = HALT
        /\ (last.preIME \/ last.haltSkip)
        /\ BitAnd(MemRead(mem, ADDR_IE), MemRead(mem, ADDR_IF)) = 0 )
      => (PC' = PC /\ last'.cycles = 4) ]_vars

\* C5: push(x) immediately followed by pop() returns x and restores SP.
C5_PushPopRoundTrip ==
  (probe.kind = "stack" /\ probe.phase = "popped") =>
    (probe.ret = probe.x /\ SP = probe.sp0)

\* C6: push(x) with SP = s stores the high byte of x at s-1, the low byte at
\* s-2 and leaves SP = s-2; pop() with SP = s returns the byte at s as low
\* byte and the byte at s+1 as high byte and leaves SP = s+2.
C6_StackLayout ==
  /\ (probe.kind = "stack" /\ probe.phase = "pushed") =>
       /\ SP = U16(probe.sp0 + 65534)
       /\ MemRead(mem, U16(probe.sp0 + 65535)) = Hi(probe.x)
       /\ MemRead(mem, U16(probe.sp0 + 65534)) = Lo(probe.x)
  /\ (probe.kind = "stack" /\ probe.phase = "popped") =>
       /\ probe.ret = Word(probe.hi, probe.lo)
       /\ SP = probe.sp0

\* C7: after reset() and after every step the low four bits of F are zero.
C7_FLowNibbleZero == BitAnd(F, \h0F) = 0

\* POP AF has loaded a stack word whose low nibble is not zero.
C7_Witness ==
  last.ran /\ last.op = POP_AF /\ BitAnd(last.popLo, \h0F) # 0

\* C8: every step returns a positive multiple of 4 T-cycles, for every
\* opcode byte, CB-prefixed and undefined ones included, with or without
\* interrupt overhead.
C8_CyclesMultipleOf4 ==
  (probe.kind = "cycles" /\ probe.done) =>
    (probe.total > 0 /\ probe.total % 4 = 0)

\* BIT 0,(HL) behind the CB prefix has been charged, with the interrupt
\* overhead on top.
C8_Witness ==
  /\ probe.kind = "cycles"
  /\ probe.done
  /\ probe.op = CB_PREFIX
  /\ probe.cb = BIT_0_HL
  /\ probe.irq

\* C9: for every base opcode whose condition is absent or not taken the
\* cost charged for the instruction is CYCLE_TABLE[opcode].
C9_CostIsTableEntry ==
  (probe.kind = "cycles" /\ probe.done /\ ~probe.taken) =>
    probe.instr = CycleTable(probe.op)

\* C10: when IE & IF has none of bits 0-4 set, the step neither dispatches
\* nor adds the 20 cycles to its return value.
C10_NoChargeWithoutSource ==
  (last.ran /\ BitAnd(LastFired, \h1F) = 0) =>
    (~Dispatched /\ ~last.irq /\ last.cycles = last.instrCycles)

====
